---- MODULE Spec2Model ----
(***************************************************************************)
(* Model of the business-intelligence dashboard's serverless handlers.     *)
(* Source: src/api/earnings-analysis.js (the earnings-analysis handler in  *)
(* lines 1-592, the history handler in lines 594-774).                     *)
(*                                                                         *)
(* JavaScript numbers are IEEE-754 doubles.  Wherever the code adds or     *)
(* divides non-integers and then compares the result with a threshold      *)
(* (finalScore, avgScore) the model computes the double the code computes: *)
(* a double is a sign and a magnitude, the magnitude an integer number of  *)
(* units of 2^-60 held in three limbs of 21 bits, and every operation      *)
(* rounds to 53 significant bits, ties to even.                            *)
(***************************************************************************)
EXTENDS Integers, Sequences, FiniteSets, TLC

NULL == [null |-> TRUE]             \* JavaScript null
UNDEF == [undefined |-> TRUE]       \* JavaScript undefined, a missing property
Truthy(v) == v # NULL /\ v # UNDEF   \* of an object, null or undefined
Num(k) == [num |-> k]               \* a number held where null may stand

----------------------------------------------------------------------------
(* IEEE-754 double arithmetic (round to nearest, ties to even).            *)

RECURSIVE Pow2(_)
Pow2(k) == IF k = 0 THEN 1 ELSE 2 * Pow2(k - 1)

Base == Pow2(21)          \* the limb radix

RECURSIVE Bits(_)
Bits(x) == IF x = 0 THEN 0 ELSE 1 + Bits(x \div 2)

\* A magnitude <<h, m, l>> stands for h*2^42 + m*2^21 + l; m, l < 2^21.
MagZero == <<0, 0, 0>>

MagNorm(h, m, l) ==
    LET c0 == l \div Base
        m1 == m + c0
        c1 == m1 \div Base
    IN  <<h + c1, m1 % Base, l % Base>>

MagAdd(a, b) == MagNorm(a[1] + b[1], a[2] + b[2], a[3] + b[3])

\* a - b for a >= b
MagSub(a, b) ==
    LET l  == a[3] - b[3]
        bl == IF l < 0 THEN 1 ELSE 0
        m  == a[2] - b[2] - bl
        bm == IF m < 0 THEN 1 ELSE 0
    IN  <<a[1] - b[1] - bm, m + bm * Base, l + bl * Base>>

MagCmp(a, b) ==
    IF a[1] # b[1] THEN (IF a[1] < b[1] THEN -1 ELSE 1)
    ELSE IF a[2] # b[2] THEN (IF a[2] < b[2] THEN -1 ELSE 1)
    ELSE IF a[3] # b[3] THEN (IF a[3] < b[3] THEN -1 ELSE 1)
    ELSE 0

MagMulSmall(a, k) == MagNorm(a[1] * k, a[2] * k, a[3] * k)

BitLen(a) ==
    IF a[1] > 0 THEN 42 + Bits(a[1])
    ELSE IF a[2] > 0 THEN 21 + Bits(a[2])
    ELSE Bits(a[3])

\* q rounded to 53 significant bits; sticky says that the exact value lies
\* strictly above q (a non-zero remainder of a division), half that the
\* remainder is exactly one half of a unit, over that it is more than half.
RoundSticky(q, sticky, half, over) ==
    LET L == BitLen(q)
        d == L - 53
    IN  IF d < 0
        THEN (IF sticky THEN CHOOSE x \in {} : TRUE ELSE q)  \* finer than the grid
        ELSE IF d = 0
        THEN IF over \/ (half /\ q[3] % 2 = 1)
             THEN MagAdd(q, <<0, 0, 1>>) ELSE q
        ELSE LET P    == Pow2(d)
                 r    == q[3] % P
                 down == <<q[1], q[2], q[3] - r>>
                 up   == MagAdd(down, <<0, 0, P>>)
                 odd  == ((q[3] - r) \div P) % 2 = 1
             IN  IF r > P \div 2 \/ (r = P \div 2 /\ sticky) THEN up
                 ELSE IF r < P \div 2 THEN down
                 ELSE IF odd THEN up ELSE down

RoundMag(q) == RoundSticky(q, FALSE, FALSE, FALSE)

\* the double nearest to a / n, for 0 < n < 1024
MagDivRound(a, n) ==
    LET qh  == a[1] \div n
        r1  == a[1] % n
        qm  == (r1 * Base + a[2]) \div n
        r2  == (r1 * Base + a[2]) % n
        ql  == (r2 * Base + a[3]) \div n
        rem == (r2 * Base + a[3]) % n
    IN  RoundSticky(MagNorm(qh, qm, ql), rem # 0, 2 * rem = n, 2 * rem > n)

Dbl(neg, mag) == [neg |-> neg /\ mag # MagZero, mag |-> mag]

DZero == Dbl(FALSE, MagZero)

\* 2^60 units: the double 1.0
MagOne == <<262144, 0, 0>>

\* the double a decimal literal h/100 denotes (h >= 0), as the JavaScript
\* parser and JSON.parse produce it
Dec(h) == Dbl(FALSE, MagDivRound(MagMulSmall(MagOne, h), 100))

fneg(x) == Dbl(~x.neg, x.mag)

\* x + y
fadd(x, y) ==
    IF x.neg = y.neg THEN Dbl(x.neg, RoundMag(MagAdd(x.mag, y.mag)))
    ELSE IF MagCmp(x.mag, y.mag) >= 0
         THEN Dbl(x.neg, RoundMag(MagSub(x.mag, y.mag)))
         ELSE Dbl(y.neg, RoundMag(MagSub(y.mag, x.mag)))

\* x / n for an integer 0 < n < 1024
fdiv(x, n) == Dbl(x.neg, MagDivRound(x.mag, n))

\* k * x for k in {-1, 0, 1} (exact)
fmulInt(k, x) == IF k = 0 THEN DZero ELSE IF k = 1 THEN x ELSE fneg(x)

flt(x, y) ==
    IF x.neg /\ ~y.neg THEN TRUE
    ELSE IF ~x.neg /\ y.neg THEN FALSE
    ELSE IF x.neg THEN MagCmp(x.mag, y.mag) > 0
    ELSE MagCmp(x.mag, y.mag) < 0

fgt(x, y) == flt(y, x)

\* a * 2^k
RECURSIVE MagShl(_, _)
MagShl(a, k) == IF k = 0 THEN a ELSE MagShl(MagMulSmall(a, 2), k - 1)

\* a / 2^k where that is a whole number of units; finer values are off the grid
RECURSIVE MagShr(_, _)
MagShr(a, k) ==
    IF k = 0 THEN a
    ELSE IF a[3] % 2 = 1 THEN CHOOSE x \in {} : TRUE
    ELSE MagShr(<<a[1] \div 2, (a[2] + (a[1] % 2) * Base) \div 2,
                  (a[3] + (a[2] % 2) * Base) \div 2>>, k - 1)

\* n further bits of a restoring division by b: qr[1] is the quotient so
\* far, qr[2] the remainder
RECURSIVE QuotBits(_, _, _)
QuotBits(qr, b, n) ==
    IF n = 0 THEN qr
    ELSE IF MagCmp(MagMulSmall(qr[2], 2), b) >= 0
    THEN QuotBits(<<MagAdd(MagMulSmall(qr[1], 2), <<0, 0, 1>>),
                    MagSub(MagMulSmall(qr[2], 2), b)>>, b, n - 1)
    ELSE QuotBits(<<MagMulSmall(qr[1], 2), MagMulSmall(qr[2], 2)>>, b, n - 1)

\* the 53-bit quotient qr[1] rounded to nearest, ties to even, by the remainder qr[2]
QuotRound(qr, b) ==
    IF MagCmp(MagMulSmall(qr[2], 2), b) > 0
         \/ (MagCmp(MagMulSmall(qr[2], 2), b) = 0 /\ qr[1][3] % 2 = 1)
    THEN MagAdd(qr[1], <<0, 0, 1>>)
    ELSE qr[1]

\* q * 2^e
MagScale(q, e) == IF e >= 0 THEN MagShl(q, e) ELSE MagShr(q, -e)

\* the double nearest to a / b for b <= a < 2b, times 2^k
MagDivFrom(a, b, k) ==
    MagScale(QuotRound(QuotBits(<<<<0, 0, 1>>, MagSub(a, b)>>, b, 52), b), k + 8)

\* the double nearest to a / b, a and b brought to the same bit length
MagDivAligned(a, b, k) ==
    IF MagCmp(a, b) < 0 THEN MagDivFrom(MagMulSmall(a, 2), b, k - 1) ELSE MagDivFrom(a, b, k)

MagDiv(a, b) ==
    IF a = MagZero THEN MagZero
    ELSE IF BitLen(a) >= BitLen(b)
    THEN MagDivAligned(a, MagShl(b, BitLen(a) - BitLen(b)), BitLen(a) - BitLen(b))
    ELSE MagDivAligned(MagShl(a, BitLen(b) - BitLen(a)), b, BitLen(a) - BitLen(b))

\* x / y for y # 0
fdivide(x, y) == Dbl(x.neg # y.neg, MagDiv(x.mag, y.mag))

\* x - y
fsub(x, y) == fadd(x, fneg(y))

\* x * k for an integer 0 < k < 128
fmul(x, k) == Dbl(x.neg, RoundMag(MagMulSmall(x.mag, k)))

\* x >= y
fge(x, y) == ~flt(x, y)

\* the double a decimal literal k/d denotes, for 0 < d < 1024
Lit(k, d) == Dbl(FALSE, MagDivRound(MagMulSmall(MagOne, k), d))

\* parseFloat(x.toFixed(2)): the hundredths nearest to the exact value of x,
\* halves away from zero, printed and read back as a double
toFixed2(x) ==
    Dbl(x.neg, Dec(MagAdd(MagMulSmall(x.mag, 100), <<131072, 0, 0>>)[1] \div 262144).mag)


----------------------------------------------------------------------------
(* generateRecommendation (pure).  trendPercent and the indicator values   *)
(* are carried in tenths: they are compared only with the integers 5, -5,  *)
(* 3, 5 and 6, which a double holds exactly, so the comparison of the      *)
(* double with the integer is the comparison of the tenths with 10 times   *)
(* the integer; toFixed(1) of a value in tenths prints those tenths.       *)

W_SENTIMENT == Dec(40)     \* 0.4
W_TREND == Dec(30)         \* 0.3
W_ECONOMIC == Dec(30)      \* 0.3

Line(about, text, args) == [about |-> about, text |-> text, args |-> args]

\* 1. SENTIMENT ANALYSIS (40% weight)
recSentiment_ge(sentimentData) ==
    IF Truthy(sentimentData) /\ Truthy(sentimentData.overall)
    THEN LET score     == sentimentData.overall.score
             sentiment == sentimentData.overall.sentiment
             breakdown == sentimentData.breakdown
             ratios    == sentimentData.sentimentRatio
         IN  IF sentiment = "POSITIVE" /\ ~flt(score, Dec(50))
             THEN [factor |-> 1, lines |-> <<Line("sentiment", "Positive earnings sentiment",
                     <<ratios.positivePercent, breakdown.positive, breakdown.total>>)>>]
             ELSE IF sentiment = "NEGATIVE" \/ flt(score, Dec(30))
             THEN [factor |-> -1, lines |-> <<Line("sentiment", "Negative earnings sentiment",
                     <<ratios.negativePercent>>)>>]
             ELSE [factor |-> 0, lines |-> <<Line("sentiment", "Mixed earnings sentiment",
                     <<ratios.positivePercent, ratios.negativePercent>>)>>]
    ELSE [factor |-> 0, lines |-> <<>>]

recSentiment(sentimentData) ==
    IF Truthy(sentimentData) /\ Truthy(sentimentData.overall)
    THEN LET score     == sentimentData.overall.score
             sentiment == sentimentData.overall.sentiment
             breakdown == sentimentData.breakdown
             ratios    == sentimentData.sentimentRatio
         IN  IF sentiment = "POSITIVE" /\ fgt(score, Dec(50))
             THEN [factor |-> 1, lines |-> <<Line("sentiment", "Positive earnings sentiment",
                     <<ratios.positivePercent, breakdown.positive, breakdown.total>>)>>]
             ELSE IF sentiment = "NEGATIVE" \/ flt(score, Dec(30))
             THEN [factor |-> -1, lines |-> <<Line("sentiment", "Negative earnings sentiment",
                     <<ratios.negativePercent>>)>>]
             ELSE [factor |-> 0, lines |-> <<Line("sentiment", "Mixed earnings sentiment",
                     <<ratios.positivePercent, ratios.negativePercent>>)>>]
    ELSE [factor |-> 0, lines |-> <<>>]

\* 2. PRICE TREND ANALYSIS (30% weight)
recPriceTrend_ge(historicalTrend) ==
    IF Truthy(historicalTrend) /\ historicalTrend.trendPercent # UNDEF
    THEN LET trend == historicalTrend.trendPercent.num
         IN  IF trend >= 50
             THEN [factor |-> 1, lines |-> <<Line("priceTrend", "Strong 30-day uptrend", <<trend>>)>>]
             ELSE IF trend < -50
             THEN [factor |-> -1, lines |-> <<Line("priceTrend", "30-day downtrend", <<trend>>)>>]
             ELSE [factor |-> 0, lines |-> <<Line("priceTrend", "Price relatively stable",
                     <<IF trend > 0 THEN "+" ELSE "", trend>>)>>]
    ELSE [factor |-> 0, lines |-> <<>>]

recPriceTrend(historicalTrend) ==
    IF Truthy(historicalTrend) /\ historicalTrend.trendPercent # UNDEF
    THEN LET trend == historicalTrend.trendPercent.num
         IN  IF trend > 50
             THEN [factor |-> 1, lines |-> <<Line("priceTrend", "Strong 30-day uptrend", <<trend>>)>>]
             ELSE IF trend < -50
             THEN [factor |-> -1, lines |-> <<Line("priceTrend", "30-day downtrend", <<trend>>)>>]
             ELSE [factor |-> 0, lines |-> <<Line("priceTrend", "Price relatively stable",
                     <<IF trend > 0 THEN "+" ELSE "", trend>>)>>]
    ELSE [factor |-> 0, lines |-> <<>>]

\* economicScore is kept in halves: += 0.5 is + 1
inflationScore(indicators) ==
    IF Truthy(indicators.inflation) /\ indicators.inflation.available
    THEN IF indicators.inflation.value.num < 30 THEN [s |-> 1, why |-> <<"low inflation">>]
         ELSE IF indicators.inflation.value.num > 50 THEN [s |-> -1, why |-> <<"high inflation">>]
         ELSE [s |-> 0, why |-> <<>>]
    ELSE [s |-> 0, why |-> <<>>]

unemploymentScore(indicators) ==
    IF Truthy(indicators.unemployment) /\ indicators.unemployment.available
    THEN IF indicators.unemployment.value.num < 50 THEN [s |-> 1, why |-> <<"strong employment">>]
         ELSE IF indicators.unemployment.value.num > 60 THEN [s |-> -1, why |-> <<"weak employment">>]
         ELSE [s |-> 0, why |-> <<>>]
    ELSE [s |-> 0, why |-> <<>>]

\* 3. ECONOMIC INDICATORS (30% weight)
recEconomic_ignoreAvailable(economicData) ==
    IF Truthy(economicData) /\ Truthy(economicData.indicators)
    THEN LET ind == economicData.indicators
             inf == IF Truthy(ind.inflation) /\ ind.inflation.value # NULL
                    THEN inflationScore([ind EXCEPT !.inflation.available = TRUE])
                    ELSE [s |-> 0, why |-> <<>>]
             une == unemploymentScore(ind)
             economicScore   == inf.s + une.s
             economicReasons == inf.why \o une.why
         IN  IF economicScore > 0
             THEN [factor |-> 1, lines |-> <<Line("economic", "Favorable economic conditions", economicReasons)>>]
             ELSE IF economicScore < 0
             THEN [factor |-> -1, lines |-> <<Line("economic", "Challenging economic environment", economicReasons)>>]
             ELSE [factor |-> 0, lines |-> <<Line("economic", "Mixed economic signals", <<>>)>>]
    ELSE [factor |-> 0, lines |-> <<>>]

recEconomic(economicData) ==
    IF Truthy(economicData) /\ Truthy(economicData.indicators)
    THEN LET inf == inflationScore(economicData.indicators)
             une == unemploymentScore(economicData.indicators)
             economicScore   == inf.s + une.s
             economicReasons == inf.why \o une.why
         IN  IF economicScore > 0
             THEN [factor |-> 1, lines |-> <<Line("economic", "Favorable economic conditions", economicReasons)>>]
             ELSE IF economicScore < 0
             THEN [factor |-> -1, lines |-> <<Line("economic", "Challenging economic environment", economicReasons)>>]
             ELSE [factor |-> 0, lines |-> <<Line("economic", "Mixed economic signals", <<>>)>>]
    ELSE [factor |-> 0, lines |-> <<>>]

\* CALCULATE FINAL SCORE
finalScoreOf_wrongWeight(factors) ==
    fadd(fadd(fmulInt(factors.sentiment, W_SENTIMENT), fmulInt(factors.priceTrend, W_SENTIMENT)),
         fmulInt(factors.economic, W_ECONOMIC))

\* the final score with the trend counted against the verdict
finalScoreOf_trendInverted(factors) ==
    fadd(fadd(fmulInt(factors.sentiment, W_SENTIMENT), fmulInt(0 - factors.priceTrend, W_TREND)),
         fmulInt(factors.economic, W_ECONOMIC))

finalScoreOf(factors) ==
    fadd(fadd(fmulInt(factors.sentiment, W_SENTIMENT), fmulInt(factors.priceTrend, W_TREND)),
         fmulInt(factors.economic, W_ECONOMIC))

Verdict(rec, conf, risk, summary) ==
    [recommendation |-> rec, confidence |-> conf, riskLevel |-> risk, summary |-> summary]

verdictOf_ge(finalScore) ==
    IF ~flt(finalScore, Dec(40))
    THEN Verdict("BUY", "High", "Moderate",
                 "Strong indicators suggest potential for appreciation. Positive sentiment combined with favorable conditions support a buying opportunity.")
    ELSE IF fgt(finalScore, DZero)
    THEN Verdict("BUY", "Moderate", "Moderate",
                 "Generally positive indicators with some caution. Consider gradual position building.")
    ELSE IF fgt(finalScore, fneg(Dec(40)))
    THEN Verdict("HOLD", "Moderate", "Moderate",
                 "Mixed signals suggest maintaining current position. Monitor for clearer trends before making changes.")
    ELSE Verdict("SELL", "Moderate", "Elevated",
                 "Negative indicators suggest risk mitigation. Consider reducing exposure or taking profits.")

verdictOf(finalScore) ==
    IF fgt(finalScore, Dec(40))
    THEN Verdict("BUY", "High", "Moderate",
                 "Strong indicators suggest potential for appreciation. Positive sentiment combined with favorable conditions support a buying opportunity.")
    ELSE IF fgt(finalScore, DZero)
    THEN Verdict("BUY", "Moderate", "Moderate",
                 "Generally positive indicators with some caution. Consider gradual position building.")
    ELSE IF fgt(finalScore, fneg(Dec(40)))
    THEN Verdict("HOLD", "Moderate", "Moderate",
                 "Mixed signals suggest maintaining current position. Monitor for clearer trends before making changes.")
    ELSE Verdict("SELL", "Moderate", "Elevated",
                 "Negative indicators suggest risk mitigation. Consider reducing exposure or taking profits.")

DISCLAIMER ==
    "This analysis is for educational purposes only and not financial advice. Always conduct thorough research and consult with financial professionals before making investment decisions."

reasoningOf_swapped(s, p, e) == s.lines \o e.lines \o p.lines

\* reasoning.push in the order the three blocks run
reasoningOf(s, p, e) == s.lines \o p.lines \o e.lines

\* lines 413-422: the returned object
recommendationOf(reasoning, factors, finalScore, v) ==
    [recommendation |-> v.recommendation,
     confidence     |-> v.confidence,
     riskLevel      |-> v.riskLevel,
     score          |-> finalScore,
     summary        |-> v.summary,
     reasoning      |-> reasoning,
     factors        |-> factors,
     disclaimer     |-> DISCLAIMER]

\* lines 389-411: the verdict of the final score
decide(reasoning, factors, finalScore) ==
    recommendationOf(reasoning, factors, finalScore, verdictOf(finalScore))

\* lines 386-387: the final score of the factors
scoreAndDecide(reasoning, factors) == decide(reasoning, factors, finalScoreOf(factors))

\* stockData is not read
generateRecommendation(stockData, sentimentData, economicData, historicalTrend) ==
    LET s == recSentiment(sentimentData)
        p == recPriceTrend(historicalTrend)
        e == recEconomic(economicData)
    IN  scoreAndDecide(reasoningOf(s, p, e),
                       [sentiment |-> s.factor, priceTrend |-> p.factor,
                        economic |-> e.factor])

----------------------------------------------------------------------------
(* The sentence sentiment sampler.  A text is a sequence of one-character  *)
(* strings.                                                                *)

Punct == {".", "!", "?"}          \* [.!?]
WS == {" ", "\n", "\t"}           \* \s


\* the last position up to j that holds no whitespace, or 0
RECURSIVE BackWS(_, _)
BackWS(t, j) == IF j >= 1 /\ t[j] \in WS THEN BackWS(t, j - 1) ELSE j

\* what text.replace(/([.!?])\s+/g, '$1|') leaves of the character at
\* position k: nothing of the whitespace a match takes, the punctuation and
\* a bar where a match starts, the character anywhere else
Replaced(t, k) ==
    IF t[k] \in WS /\ BackWS(t, k) >= 1 /\ t[BackWS(t, k)] \in Punct THEN <<>>
    ELSE IF t[k] \in Punct /\ k < Len(t) /\ t[k + 1] \in WS THEN <<t[k], "|">>
    ELSE <<t[k]>>

RECURSIVE ReplaceRange(_, _, _)
ReplaceRange(t, lo, hi) ==
    IF lo > hi THEN <<>>
    ELSE IF lo = hi THEN Replaced(t, lo)
    ELSE ReplaceRange(t, lo, (lo + hi) \div 2) \o ReplaceRange(t, (lo + hi) \div 2 + 1, hi)

\* text.replace(/([.!?])\s+/g, '$1|'), from position i on
ReplaceFrom(t, i) == ReplaceRange(t, i, Len(t))

\* the position of the j-th bar of t; 0 before the first and Len(t) + 1
\* after the last
BarAt(t, j) ==
    IF j = 0 THEN 0
    ELSE IF j > Cardinality({k \in 1..Len(t) : t[k] = "|"}) THEN Len(t) + 1
    ELSE CHOOSE b \in {k \in 1..Len(t) : t[k] = "|"} :
           Cardinality({c \in 1..(b - 1) : t[c] = "|"}) = j - 1

\* .split('|') of the text from position i on, cur being the fragment so far
SplitFrom(t, i, cur) ==
    [j \in 1..(Cardinality({k \in i..Len(t) : t[k] = "|"}) + 1) |->
        IF j = 1 /\ Cardinality({k \in i..Len(t) : t[k] = "|"}) = 0
        THEN cur \o SubSeq(t, i, Len(t))
        ELSE IF j = 1
        THEN cur \o SubSeq(t, i, BarAt(SubSeq(t, i, Len(t)), 1) + i - 2)
        ELSE SubSeq(SubSeq(t, i, Len(t)),
                    BarAt(SubSeq(t, i, Len(t)), j - 1) + 1,
                    BarAt(SubSeq(t, i, Len(t)), j) - 1)]

RECURSIVE TrimStart(_)
TrimStart(f) == IF f # <<>> /\ Head(f) \in WS THEN TrimStart(Tail(f)) ELSE f

RECURSIVE TrimEnd(_)
TrimEnd(f) ==
    IF f # <<>> /\ f[Len(f)] \in WS THEN TrimEnd(SubSeq(f, 1, Len(f) - 1)) ELSE f

trim(f) == TrimEnd(TrimStart(f))

minSentenceLength == 20

splitIntoSentences(text) ==
    IF text = <<>> THEN <<>>
    ELSE LET frags   == SplitFrom(ReplaceFrom(text, 1), 1, <<>>)
             trimmed == [k \in 1..Len(frags) |-> trim(frags[k])]
         IN  SelectSeq(trimmed, LAMBDA f : Len(f) > minSentenceLength)

\* the labels the sentiment endpoint answers with; the code copies the label
\* of the response unchecked
Labels == {"POSITIVE", "NEGATIVE", "NEUTRAL", "WEAK_POSITIVE"}

maxLength == 500
sentenceLimit == 20

\* what fetchFromApiNinjas settles with for one sentiment request: data for a
\* 200 with a JSON body, "status" for another status (resolves success:false),
\* "reject" for a network error, a timeout or an unparseable body
SentimentOutcomes(labels, scores) ==
    {[kind |-> "status"], [kind |-> "reject"]}
      \cup {[kind |-> "ok", data |-> [sentiment |-> l, score |-> x]] : l \in labels, x \in scores}

\* the two halves of a character outside the basic plane, as UTF-16 units
HighSurrogate == "<D83D>"
LowSurrogate == "<DE00>"

\* encodeURIComponent(text) returns: every high surrogate is followed by a
\* low one and every low one preceded by a high one (else URIError)
encodable(text) ==
    \A k \in 1..Len(text) :
      /\ text[k] = HighSurrogate => (k < Len(text) /\ text[k + 1] = LowSurrogate)
      /\ text[k] = LowSurrogate => (k > 1 /\ text[k - 1] = HighSurrogate)

\* sentence.length > maxLength ? sentence.substring(0, maxLength) : sentence
textToAnalyze(sentence) ==
    IF Len(sentence) > maxLength THEN SubSeq(sentence, 1, maxLength) ELSE sentence

\* the request is issued only if the text can be encoded; the URIError of
\* encodeURIComponent is caught and makes the result null, like an outcome
\* other than a 200
analyzeSentenceSentiment(sentence, outcome) ==
    IF ~encodable(textToAnalyze(sentence)) THEN NULL
    ELSE IF outcome.kind = "ok"
    THEN [sentence  |-> textToAnalyze(sentence),
          sentiment |-> outcome.data.sentiment,
          score     |-> outcome.data.score]
    ELSE NULL

\* results.reduce((max, r) => r.score > max.score ? r : max) and its mirror
RECURSIVE ReduceBest(_, _, _)
ReduceBest(rs, best, takeHigher) ==
    IF rs = <<>> THEN best
    ELSE LET r == Head(rs)
             better == IF takeHigher THEN fgt(r.score, best.score) ELSE flt(r.score, best.score)
         IN  ReduceBest(Tail(rs), IF better THEN r ELSE best, takeHigher)

\* results.reduce((sum, r) => sum + r.score, 0)
RECURSIVE SumScores(_, _)
SumScores(rs, sum) == IF rs = <<>> THEN sum ELSE SumScores(Tail(rs), fadd(sum, Head(rs).score))

\* Math.round((count / total) * 100).  For total <= 21 the quotient times 100
\* ends in .5 only when count/total is a binary fraction, where the double is
\* exact, and is otherwise further from .5 than the rounding error: the
\* integer round-half-up is what Math.round returns.
percentOf(count, total) == (200 * count + total) \div (2 * total)

overallSentiment_ge(positive, negative, avgScore) ==
    IF Len(positive) > Len(negative) /\ ~flt(avgScore, Dec(55)) THEN "POSITIVE"
    ELSE IF Len(negative) > Len(positive) /\ flt(avgScore, Dec(45)) THEN "NEGATIVE"
    ELSE "NEUTRAL"

\* the overall label with the bar for POSITIVE at 0.45
overallSentiment_lowBar(positive, negative, avgScore) ==
    IF Len(positive) > Len(negative) /\ fgt(avgScore, Dec(45)) THEN "POSITIVE"
    ELSE IF Len(negative) > Len(positive) /\ flt(avgScore, Dec(45)) THEN "NEGATIVE"
    ELSE "NEUTRAL"

overallSentiment(positive, negative, avgScore) ==
    IF Len(positive) > Len(negative) /\ fgt(avgScore, Dec(55)) THEN "POSITIVE"
    ELSE IF Len(negative) > Len(positive) /\ flt(avgScore, Dec(45)) THEN "NEGATIVE"
    ELSE "NEUTRAL"

\* the aggregation of a non-empty results array (lines 174-219)
aggregate(results) ==
    LET positive == SelectSeq(results, LAMBDA r : r.sentiment = "POSITIVE")
        negative == SelectSeq(results, LAMBDA r : r.sentiment = "NEGATIVE")
        neutral  == SelectSeq(results, LAMBDA r : r.sentiment = "NEUTRAL")
        mostPositive == IF Len(positive) > 0
                        THEN ReduceBest(Tail(positive), Head(positive), TRUE) ELSE NULL
        mostNegative == IF Len(negative) > 0
                        THEN ReduceBest(Tail(negative), Head(negative), FALSE) ELSE NULL
        avgScore == fdiv(SumScores(results, DZero), Len(results))
    IN  [overall        |-> [sentiment |-> overallSentiment(positive, negative, avgScore),
                             score     |-> avgScore],
         breakdown      |-> [positive |-> Len(positive),
                             negative |-> Len(negative),
                             neutral  |-> Len(neutral),
                             total    |-> Len(results)],
         highlights     |-> [mostPositive |-> mostPositive, mostNegative |-> mostNegative],
         sentimentRatio |-> [positivePercent |-> percentOf(Len(positive), Len(results)),
                             negativePercent |-> percentOf(Len(negative), Len(results)),
                             neutralPercent  |-> percentOf(Len(neutral), Len(results))]]

----------------------------------------------------------------------------
(* The transcript extractor.  JSON values are tagged records: Str(chars) a *)
(* string that is not itself JSON text, JStr(v) a string that JSON.parse   *)
(* turns into v, Arr(items) an array, Num(k) a number, NULL, UNDEF for a   *)
(* missing property, and plain records for objects.                        *)

Str(chars) == [str |-> chars]
Arr(items) == [arr |-> items]
JStr(parsed) == [jstr |-> parsed]
IsStr(v) == "str" \in DOMAIN v
IsArr(v) == "arr" \in DOMAIN v
IsJStr(v) == "jstr" \in DOMAIN v
IsNum(v) == "num" \in DOMAIN v

\* JavaScript truthiness of a JSON value
TruthyVal(v) ==
    /\ v # NULL /\ v # UNDEF
    /\ ~(IsStr(v) /\ v.str = <<>>)
    /\ ~(IsNum(v) /\ v.num = 0)

\* s.includes(sub)
Includes(s, sub) ==
    \E k \in 1..(Len(s) - Len(sub) + 1) : SubSeq(s, k, k + Len(sub) - 1) = sub

keyRoles ==
    <<<<"C", "h", "i", "e", "f", " ", "E", "x", "e", "c", "u", "t", "i", "v", "e", " ", "O", "f", "f", "i", "c", "e", "r">>,
      <<"C", "h", "i", "e", "f", " ", "F", "i", "n", "a", "n", "c", "i", "a", "l", " ", "O", "f", "f", "i", "c", "e", "r">>,
      <<"C", "h", "a", "i", "r", "m", "a", "n">>>>

RECURSIVE Join(_, _)
Join(parts, sep) ==
    IF parts = <<>> THEN <<>>
    ELSE IF Len(parts) = 1 THEN parts[1]
    ELSE parts[1] \o sep \o Join(Tail(parts), sep)

lastStatements == 3
tailLength == 1000

Returns(v) == [threw |-> FALSE, value |-> v]
Throws(e) == [threw |-> TRUE, error |-> e]

\* item && item.role && keyRoles.some(role => item.role.includes(role));
\* "throws" when item.role is truthy and has no includes method
IsExecutive(item) ==
    IF ~TruthyVal(item) \/ ~TruthyVal(item.role) THEN "no"
    ELSE IF IsStr(item.role)
    THEN (IF \E r \in 1..Len(keyRoles) : Includes(item.role.str, keyRoles[r])
          THEN "yes" ELSE "no")
    ELSE IF IsArr(item.role)
    THEN (IF \E r \in 1..Len(keyRoles), k \in 1..Len(item.role.arr) :
                item.role.arr[k] = Str(keyRoles[r])
          THEN "yes" ELSE "no")
    ELSE "throws"

\* the fallback to the end of the raw transcript text (lines 283-296)
transcriptTail(transcript) ==
    IF TruthyVal(transcript.transcript) /\ IsStr(transcript.transcript)
    THEN LET text == transcript.transcript.str
             transcriptLength == Len(text)
             startPos == IF transcriptLength - tailLength > 0
                         THEN transcriptLength - tailLength ELSE 0
         IN  SubSeq(text, startPos + 1, transcriptLength)
    ELSE <<>>

extractKeyStatements(transcript) ==
    IF ~TruthyVal(transcript) THEN Returns(<<>>)
    ELSE
      LET raw == transcript.transcript_split
          \* JSON.parse in a try; its SyntaxError, or the TypeError of reading
          \* .length of a parsed null, leaves transcriptSplit = null
          transcriptSplit ==
              IF IsJStr(raw) THEN raw.jstr
              ELSE IF IsStr(raw) THEN NULL
              ELSE raw
      IN  IF IsArr(transcriptSplit) /\ Len(transcriptSplit.arr) > 0
          THEN LET items == transcriptSplit.arr
               IN  IF \E k \in 1..Len(items) : IsExecutive(items[k]) = "throws"
                   THEN Throws("item.role.includes is not a function")
                   ELSE
                     LET executiveStatements ==
                             SelectSeq(SelectSeq(items, LAMBDA it : IsExecutive(it) = "yes"),
                                       LAMBDA it : TruthyVal(it.text))
                         n == Len(executiveStatements)
                         relevantStatements ==
                             IF n > lastStatements
                             THEN SubSeq(executiveStatements, n - lastStatements + 1, n)
                             ELSE executiveStatements
                         keyStatements ==
                             Join([k \in 1..Len(relevantStatements) |->
                                     relevantStatements[k].text.str], <<" ">>)
                     IN  IF keyStatements # <<>> THEN Returns(keyStatements)
                         ELSE Returns(transcriptTail(transcript))
          ELSE Returns(transcriptTail(transcript))

----------------------------------------------------------------------------
(* analyzeSentimentDetailed as a state machine: one step per stretch of    *)
(* code between two awaits.  Its state is the record of its locals.        *)

slice(seq, n) == IF Len(seq) > n THEN SubSeq(seq, 1, n) ELSE seq

sentIdle ==
    [pc |-> "idle", text |-> <<>>, sentences |-> <<>>, i |-> 0, results |-> <<>>, ret |-> NULL]

\* entry: split, cap, and issue the request for sentence 0.  pc is "call"
\* while a sentiment request is awaited, "delay" while the 100 ms timer is,
\* "done" once the function has returned ret.
sentStart(text) ==
    LET sentences == splitIntoSentences(text)
    IN  IF Len(sentences) = 0
        THEN [sentIdle EXCEPT !.pc = "done", !.text = text]
        ELSE [sentIdle EXCEPT !.pc = "call", !.text = text,
                              !.sentences = slice(sentences, sentenceLimit)]

\* if (result) results.push(result)
pushResult(results, result) ==
    IF result # NULL THEN Append(results, result) ELSE results

\* after the push: either start the 100 ms delay or leave the loop,
\* aggregate and return
sentPushed(s, results) ==
    IF s.i < Len(s.sentences) - 1
    THEN [s EXCEPT !.results = results, !.pc = "delay"]
    ELSE [s EXCEPT !.results = results, !.pc = "done",
                   !.ret = IF Len(results) = 0 THEN NULL ELSE aggregate(results)]

\* the request for sentence i settles
sentSettle(s, outcome) ==
    sentPushed(s, pushResult(s.results,
                             analyzeSentenceSentiment(s.sentences[s.i + 1], outcome)))

\* the timer fires: i++ and the request for the next sentence is issued
sentDelayElapsed(s) == [s EXCEPT !.i = s.i + 1, !.pc = "call"]

----------------------------------------------------------------------------
(* The earnings-analysis handler (lines 428-592), one step per stretch of  *)
(* code between two awaits.  A step is a function of the world w, the      *)
(* record of the handler's locals (ea), the sampler's locals (sent), the   *)
(* response (res), the module's cache and the clock (now).  ea.pc is where *)
(* the handler stands: at an await ("fanout", "historyFallback",           *)
(* "economicsFallback", "awaitSentiment"), before a stretch of code it     *)
(* runs without waiting ("history", "economics", "sentiment", "finalize"), *)
(* or "done" once it has answered.                                         *)

CACHE_TTL == 24 * 60 * 60 * 1000

LowerCase == <<"a", "b", "c", "d", "e", "f", "g", "h", "i", "j", "k", "l", "m",
               "n", "o", "p", "q", "r", "s", "t", "u", "v", "w", "x", "y", "z">>
UpperCase == <<"A", "B", "C", "D", "E", "F", "G", "H", "I", "J", "K", "L", "M",
               "N", "O", "P", "Q", "R", "S", "T", "U", "V", "W", "X", "Y", "Z">>

toUpperCase(s) ==
    [k \in 1..Len(s) |->
        IF \E j \in 1..Len(LowerCase) : LowerCase[j] = s[k]
        THEN UpperCase[CHOOSE j \in 1..Len(LowerCase) : LowerCase[j] = s[k]]
        ELSE s[k]]

\* `earnings_${ticker.toUpperCase()}`
cacheKeyOf(ticker) == <<"e", "a", "r", "n", "i", "n", "g", "s", "_">> \o toUpperCase(ticker)

\* Map.get and Map.set
mapGet(map, key) == IF key \in DOMAIN map THEN map[key] ELSE UNDEF
mapSet(map, key, value) ==
    [k \in DOMAIN map \cup {key} |-> IF k = key THEN value ELSE map[k]]

\* what one request of fetchFromApiNinjas meets upstream: a 200 with a JSON
\* body, another status, a network error, the 30 s timeout, or a 200 whose
\* body is not JSON
UpstreamFailures ==
    {[kind |-> "status", statusCode |-> 429], [kind |-> "network"],
     [kind |-> "timeout"], [kind |-> "parse"]}

Upstream(bodies) == UpstreamFailures \cup {[kind |-> "ok", data |-> d] : d \in bodies}

\* how the promise of fetchFromApiNinjas settles
fetchFromApiNinjas(outcome) ==
    CASE outcome.kind = "ok"      -> Returns([success |-> TRUE, data |-> outcome.data])
      [] outcome.kind = "status"  -> Returns([success |-> FALSE, statusCode |-> outcome.statusCode])
      [] outcome.kind = "parse"   -> Throws("Failed to parse JSON")
      [] outcome.kind = "network" -> Throws("Network error")
      [] outcome.kind = "timeout" -> Throws("Timeout")

\* resolves to the body or to null; Object.keys(null) throws into the catch
fetchEarningsTranscript(outcome) ==
    LET result == fetchFromApiNinjas(outcome)
    IN  IF result.threw THEN NULL
        ELSE IF ~result.value.success THEN NULL
        ELSE result.value.data

\* fetchFromApiNinjas(...).catch(() => ({ success: false }))
caught(settled) == IF settled.threw THEN [success |-> FALSE] ELSE settled.value

PENDING == [pending |-> TRUE]
REJECTED == [rejected |-> TRUE]

eaIdle ==
    [pc |-> "idle", ticker |-> UNDEF,
     earningsTranscript |-> PENDING, stockPriceResult |-> PENDING,
     historicalDataResult |-> PENDING, economicDataResult |-> PENDING,
     stockData |-> UNDEF, historyResponse |-> UNDEF, historicalTrend |-> UNDEF,
     economicData |-> UNDEF, sentimentData |-> UNDEF]

\* res.status(status).json(body), and the handler returns
respond(w, status, body) ==
    [w EXCEPT !.res = [status |-> status, body |-> body], !.ea.pc = "done"]

\* the catch of lines 584-591
internalError(w, message) ==
    respond(w, 500, [error |-> "Internal server error", message |-> message])

\* lines 543-570: the response data
responseDataOf(h, clock, recommendation) ==
    LET t == h.earningsTranscript
    IN  [ticker     |-> toUpperCase(h.ticker),
         timestamp  |-> [iso |-> clock],
         stockData  |-> IF TruthyVal(h.stockData)
                        THEN [price |-> h.stockData.price, ticker |-> h.stockData.ticker]
                        ELSE NULL,
         earningsData |->
             IF TruthyVal(t)
             THEN [date |-> t.date, quarter |-> t.quarter, year |-> t.year,
                   hasTranscript |-> TRUE,
                   transcript |-> IF TruthyVal(t.transcript) THEN t.transcript ELSE NULL,
                   transcriptSplit |->
                       IF TruthyVal(t.transcript_split)
                       THEN (IF IsJStr(t.transcript_split)
                             THEN t.transcript_split.jstr
                             ELSE t.transcript_split)
                       ELSE NULL,
                   participants |-> IF TruthyVal(t.participants)
                                    THEN t.participants ELSE NULL]
             ELSE [hasTranscript |-> FALSE],
         sentimentAnalysis |->
             IF TruthyVal(h.sentimentData)
             THEN [overall        |-> h.sentimentData.overall,
                   breakdown      |-> h.sentimentData.breakdown,
                   highlights     |-> h.sentimentData.highlights,
                   sentimentRatio |-> h.sentimentData.sentimentRatio]
             ELSE NULL,
         historicalTrend |-> h.historicalTrend,
         recommendation  |-> recommendation]

\* the answer that is stored only if it holds a stock price or a transcript
answer_unlessEmpty(w, responseData) ==
    respond(IF responseData.stockData = NULL /\ ~responseData.earningsData.hasTranscript
            THEN w
            ELSE [w EXCEPT !.cache = mapSet(w.cache, cacheKeyOf(w.ea.ticker),
                                            [timestamp |-> w.now, data |-> responseData])],
            200, [success |-> TRUE, cached |-> FALSE, data |-> responseData])

\* lines 572-582: cache the response data and answer 200
answer(w, responseData) ==
    respond([w EXCEPT !.cache = mapSet(w.cache, cacheKeyOf(w.ea.ticker),
                                       [timestamp |-> w.now, data |-> responseData])],
            200, [success |-> TRUE, cached |-> FALSE, data |-> responseData])

\* lines 539-582: recommend, build the response (the JSON.parse of a
\* transcript_split string that is not JSON throws), cache it, answer 200
finalize(w) ==
    LET h == w.ea
        t == h.earningsTranscript
    IN  IF TruthyVal(t) /\ TruthyVal(t.transcript_split) /\ IsStr(t.transcript_split)
        THEN internalError(w, "Unexpected token in JSON")
        ELSE answer(w, responseDataOf(h, w.now,
                           generateRecommendation(h.stockData, h.sentimentData,
                                                  h.economicData, h.historicalTrend)))

\* the handler takes what the sampler has come to: its return value, or
\* the wait for its next request
afterSampler(w, s) ==
    IF s.pc = "done"
    THEN [w EXCEPT !.sent = s, !.ea.sentimentData = s.ret, !.ea.pc = "finalize"]
    ELSE [w EXCEPT !.sent = s, !.ea.pc = "awaitSentiment"]

\* lines 528-534: sample the key statements unless there are none
withKeyStatements(w, keyStatements) ==
    IF keyStatements.threw THEN internalError(w, keyStatements.error)
    ELSE IF keyStatements.value = <<>>
    THEN [w EXCEPT !.ea.sentimentData = NULL, !.ea.pc = "finalize"]
    ELSE afterSampler(w, sentStart(keyStatements.value))

\* lines 523-537: sample the sentiment of the key statements, if any
sentimentStage(w) ==
    LET t == w.ea.earningsTranscript
    IN  IF ~TruthyVal(t) THEN [w EXCEPT !.ea.sentimentData = NULL, !.ea.pc = "finalize"]
        ELSE withKeyStatements(w, extractKeyStatements(t))

\* lines 507-521: the indicators of the direct fetch, or the own endpoint
economicStage(w) ==
    LET r == w.ea.economicDataResult
        economicData == IF r.success THEN r.data ELSE NULL
    IN  [w EXCEPT !.ea.economicData = economicData,
                  !.ea.pc = IF ~TruthyVal(economicData)
                            THEN "economicsFallback" ELSE "sentiment"]

\* lines 487-505: the stock data; the trend stays null unless the direct
\* fetch failed and the own history endpoint is asked
historyStage(w) ==
    LET r == w.ea.stockPriceResult
        stockData == IF r.success THEN r.data ELSE NULL
    IN  [w EXCEPT !.ea.stockData = stockData,
                  !.ea.historicalTrend = NULL,
                  !.ea.pc = IF ~w.ea.historicalDataResult.success
                            THEN "historyFallback" ELSE "economics"]

\* the handler runs on until it awaits or has answered
RECURSIVE run(_)
run(w) ==
    CHOOSE r \in
        {CASE x.ea.pc = "history"   -> run(historyStage(x))
           [] x.ea.pc = "economics" -> run(economicStage(x))
           [] x.ea.pc = "sentiment" -> run(sentimentStage(x))
           [] x.ea.pc = "finalize"  -> run(finalize(x))
           [] OTHER                 -> x
         : x \in {w}} : TRUE

\* a promise of the Promise.all settles; the await resumes once all four
\* have, unless the Promise.all was rejected before
allSettled(h) ==
    /\ h.earningsTranscript # PENDING
    /\ h.stockPriceResult # PENDING
    /\ h.historicalDataResult # PENDING
    /\ h.economicDataResult # PENDING

join(w) ==
    IF w.ea.pc = "fanout" /\ w.ea.stockPriceResult # REJECTED /\ allSettled(w.ea)
    THEN run([w EXCEPT !.ea.pc = "history"])
    ELSE w

transcriptSettles(w, outcome) ==
    join([w EXCEPT !.ea.earningsTranscript = fetchEarningsTranscript(outcome)])

\* the one promise of the four without a catch: its rejection rejects the
\* Promise.all at once
stockSettles(w, outcome) ==
    LET settled == fetchFromApiNinjas(outcome)
    IN  IF settled.threw
        THEN LET w1 == [w EXCEPT !.ea.stockPriceResult = REJECTED]
             IN  IF w.ea.pc = "fanout" THEN internalError(w1, settled.error) ELSE w1
        ELSE join([w EXCEPT !.ea.stockPriceResult = settled.value])

historicalSettles(w, outcome) ==
    join([w EXCEPT !.ea.historicalDataResult = caught(fetchFromApiNinjas(outcome))])

economicsSettles(w, outcome) ==
    join([w EXCEPT !.ea.economicDataResult = caught(fetchFromApiNinjas(outcome))])

\* what fetch() of one of the system's own endpoints comes back with: it
\* throws, or answers with ok false, or with ok true and a body that
\* response.json() parses (json) or throws on (SyntaxError)
THREW == [threw |-> TRUE]
SyntaxError == [syntaxError |-> TRUE]

OwnResponses(datas) ==
    {THREW, [ok |-> FALSE], [ok |-> TRUE, json |-> SyntaxError],
     [ok |-> TRUE, json |-> [success |-> FALSE]]}
      \cup {[ok |-> TRUE, json |-> [success |-> TRUE, data |-> d]] : d \in datas}

\* the data of an own endpoint's answer, or UNDEF when the try leaves early
ownData(response) ==
    IF response = THREW THEN UNDEF
    ELSE IF ~response.ok THEN UNDEF
    ELSE IF response.json = SyntaxError THEN UNDEF
    ELSE IF ~response.json.success THEN UNDEF
    ELSE response.json.data

historyFallbackSettles(w, response) ==
    LET data == ownData(response)
    IN  run([w EXCEPT !.ea.historyResponse = response,
                      !.ea.historicalTrend = IF data # UNDEF THEN data.statistics ELSE @,
                      !.ea.pc = "economics"])

economicsFallbackSettles(w, response) ==
    LET data == ownData(response)
    IN  run([w EXCEPT !.ea.economicData = IF data # UNDEF THEN data ELSE @,
                      !.ea.pc = "sentiment"])

\* the sampler's request settles; when that ends the loop the handler
\* resumes with what the sampler returned
sentimentSettles(w, outcome) == run(afterSampler(w, sentSettle(w.sent, outcome)))

sentimentDelayElapsed(w) == [w EXCEPT !.sent = sentDelayElapsed(w.sent)]

\* lines 428-485: from the arrival of the request to the fan-out
handler(w, request, environment) ==
    IF request.method = "OPTIONS" THEN respond(w, 200, UNDEF)
    ELSE IF request.method # "GET"
    THEN respond(w, 405, [error |-> "Method not allowed",
                          message |-> "This endpoint only accepts GET requests"])
    ELSE IF ~TruthyVal(request.query.ticker)
    THEN respond(w, 400, [error |-> "Bad request",
                          message |-> "Ticker parameter is required"])
    ELSE IF ~TruthyVal(environment.API_KEY)
    THEN respond(w, 500, [error |-> "Configuration error",
                          message |-> "API_KEY environment variable is not configured"])
    ELSE
      LET ticker == request.query.ticker.str
          entry == mapGet(w.cache, cacheKeyOf(ticker))
      IN  IF entry # UNDEF /\ w.now - entry.timestamp < CACHE_TTL
          THEN respond(w, 200, [success |-> TRUE, cached |-> TRUE, data |-> entry.data])
          ELSE [w EXCEPT !.ea = [eaIdle EXCEPT !.pc = "fanout", !.ticker = ticker]]

----------------------------------------------------------------------------
(* State.                                                                  *)

VARIABLES
    recArgs,      \* the arguments of a call of generateRecommendation, or NULL
    recResult,    \* what that call returned, or NULL before it returns
    sent,         \* the locals of the running analyzeSentimentDetailed call
    env,          \* process.env
    req,          \* the request the handler was called with, or NULL
    res,          \* the response sent, or NULL
    ea,           \* the locals of the running earnings-analysis handler
    cache,        \* the cache Map of the module the specification is about
    now,          \* Date.now()
    callArgs,     \* the argument of a call of a function run on its own, or NULL
    callResult,   \* what that call came to, or NULL before it returns
    hs,           \* the handler invocations in flight or answered, in order of arrival
    calls,        \* the upstream requests made so far, in order
    fn            \* the serverless function this process hosts, or NULL

recVars == <<recArgs, recResult>>
eaVars == <<env, req, res, ea, cache, now>>
callVars == <<callArgs, callResult>>
hsVars == <<hs, calls, fn>>
vars == <<recArgs, recResult, sent, env, req, res, ea, cache, now,
          callArgs, callResult, hs, calls, fn>>

RecIdle == recArgs = NULL /\ recResult = NULL
SentIdle == sent = sentIdle
EAIdle ==
    /\ env = [API_KEY |-> UNDEF]
    /\ req = NULL
    /\ res = NULL
    /\ ea = eaIdle
    /\ cache = <<>>
    /\ now = 0
CallIdle == callArgs = NULL /\ callResult = NULL
HsIdle == hs = <<>> /\ calls = <<>> /\ fn = NULL

----------------------------------------------------------------------------
(* analyzeSentimentDetailed run on its own, against every answer of the    *)
(* sentiment endpoint.                                                     *)

SentStart ==
    /\ sent.pc = "start"
    /\ sent' = sentStart(sent.text)

SentSettle(outcome) ==
    /\ sent.pc = "call"
    /\ sent' = sentSettle(sent, outcome)

SentDelayElapsed ==
    /\ sent.pc = "delay"
    /\ sent' = sentDelayElapsed(sent)

MaxSentences == 2

Letter(k) ==
    <<"a", "b", "c", "d", "e", "f", "g", "h", "i", "j", "k", "l", "m",
      "n", "o", "p", "q", "r", "s", "t", "u", "v", "w", "x", "y", "z">>[((k - 1) % 26) + 1]

\* 21 letters and a full stop
LongSentence(k) == [j \in 1..22 |-> IF j < 22 THEN Letter(k) ELSE "."]

RECURSIVE TextOf(_)
TextOf(n) ==
    IF n = 0 THEN <<>>
    ELSE IF n = 1 THEN LongSentence(1)
    ELSE TextOf(n - 1) \o <<" ">> \o LongSentence(n)

ShortSentence == <<"T", "h", "a", "n", "k", "s", ".">>

SentTexts ==
    {TextOf(n) : n \in 0..MaxSentences}
      \cup {ShortSentence, ShortSentence \o <<" ">> \o TextOf(1)}

\* scores on both sides of, and on, the thresholds 0.45 and 0.55
SentScores == {Dec(20), Dec(30), Dec(45), Dec(55), Dec(60), Dec(80)}

SentInit ==
    /\ RecIdle
    /\ EAIdle
    /\ CallIdle
    /\ HsIdle
    /\ sent \in {[sentIdle EXCEPT !.pc = "start", !.text = t] : t \in SentTexts}

SentNext ==
    \/ SentStart /\ UNCHANGED <<recVars, eaVars, callVars, hsVars>>
    \/ (\E o \in SentimentOutcomes(Labels, SentScores) : SentSettle(o))
          /\ UNCHANGED <<recVars, eaVars, callVars, hsVars>>
    \/ SentDelayElapsed /\ UNCHANGED <<recVars, eaVars, callVars, hsVars>>

SpecSent == SentInit /\ [][SentNext]_vars

----------------------------------------------------------------------------
(* generateRecommendation applied to every combination of its inputs.      *)

\* scores on both sides of, and on, the thresholds 0.3 and 0.5
RecScores == {Dec(20), Dec(30), Dec(40), Dec(50), Dec(60)}

SentimentArg(sentiment, score) ==
    [overall        |-> [sentiment |-> sentiment, score |-> score],
     breakdown      |-> [positive |-> 1, negative |-> 1, neutral |-> 0, total |-> 2],
     highlights     |-> [mostPositive |-> NULL, mostNegative |-> NULL],
     sentimentRatio |-> [positivePercent |-> 50, negativePercent |-> 50, neutralPercent |-> 0]]

SentimentArgs ==
    {NULL} \cup {SentimentArg(l, x) : l \in Labels, x \in RecScores}

\* trendPercent in tenths: on both sides of, and on, 5 and -5
TrendArgs ==
    {NULL, [trendPercent |-> UNDEF]}
      \cup {[trendPercent |-> Num(t)] : t \in {-80, -51, -50, 0, 50, 51, 80}}

Indicator(value, available) == [value |-> value, available |-> available]

InflationArgs ==
    {UNDEF} \cup {Indicator(Num(v), TRUE) : v \in {20, 30, 40, 50, 60}}
            \cup {Indicator(v, FALSE) : v \in {NULL, Num(20), Num(60)}}

UnemploymentArgs ==
    {UNDEF} \cup {Indicator(Num(v), TRUE) : v \in {40, 50, 55, 60, 70}}
            \cup {Indicator(v, FALSE) : v \in {NULL, Num(40), Num(70)}}

OtherIndicatorArgs == {UNDEF, Indicator(Num(70), TRUE)}

EconomicArgs ==
    {NULL, [indicators |-> UNDEF]}
      \cup {[indicators |-> [inflation |-> i, unemployment |-> u, mortgageRate |-> m]] :
              i \in InflationArgs, u \in UnemploymentArgs, m \in OtherIndicatorArgs}

StockArgs == {NULL, [price |-> 100, ticker |-> "AAPL"]}

RecInit ==
    /\ SentIdle
    /\ EAIdle
    /\ CallIdle
    /\ HsIdle
    /\ recArgs \in [stockData : StockArgs, sentimentData : SentimentArgs,
                    economicData : EconomicArgs, historicalTrend : TrendArgs]
    /\ recResult = NULL

CallGenerateRecommendation ==
    /\ recResult = NULL
    /\ recResult' = generateRecommendation(recArgs.stockData, recArgs.sentimentData,
                                           recArgs.economicData, recArgs.historicalTrend)
    /\ UNCHANGED <<recArgs, sent, eaVars, callVars, hsVars>>

RecNext == CallGenerateRecommendation

SpecRec == RecInit /\ [][RecNext]_vars

----------------------------------------------------------------------------
(* One request to the earnings-analysis handler of a freshly started       *)
(* process, against every way each upstream and own-endpoint call can end. *)

World == [ea |-> ea, sent |-> sent, res |-> res, cache |-> cache, now |-> now]

Becomes(w) ==
    /\ ea' = w.ea
    /\ sent' = w.sent
    /\ res' = w.res
    /\ cache' = w.cache

\* the four fetches of the fan-out have been issued
Issued == ea.pc # "idle" /\ ea.ticker # UNDEF

Receive(request) ==
    /\ req = NULL
    /\ ea.pc = "idle"
    /\ req' = request
    /\ \E w \in {handler(World, request, env)} : Becomes(w)
    /\ UNCHANGED <<env, now, recVars, callVars, hsVars>>

TranscriptSettles(outcome) ==
    /\ Issued
    /\ ea.earningsTranscript = PENDING
    /\ \E w \in {transcriptSettles(World, outcome)} : Becomes(w)
    /\ UNCHANGED <<env, req, now, recVars, callVars, hsVars>>

StockSettles(outcome) ==
    /\ Issued
    /\ ea.stockPriceResult = PENDING
    /\ \E w \in {stockSettles(World, outcome)} : Becomes(w)
    /\ UNCHANGED <<env, req, now, recVars, callVars, hsVars>>

HistoricalSettles(outcome) ==
    /\ Issued
    /\ ea.historicalDataResult = PENDING
    /\ \E w \in {historicalSettles(World, outcome)} : Becomes(w)
    /\ UNCHANGED <<env, req, now, recVars, callVars, hsVars>>

EconomicsSettles(outcome) ==
    /\ Issued
    /\ ea.economicDataResult = PENDING
    /\ \E w \in {economicsSettles(World, outcome)} : Becomes(w)
    /\ UNCHANGED <<env, req, now, recVars, callVars, hsVars>>

HistoryFallbackSettles(response) ==
    /\ ea.pc = "historyFallback"
    /\ \E w \in {historyFallbackSettles(World, response)} : Becomes(w)
    /\ UNCHANGED <<env, req, now, recVars, callVars, hsVars>>

EconomicsFallbackSettles(response) ==
    /\ ea.pc = "economicsFallback"
    /\ \E w \in {economicsFallbackSettles(World, response)} : Becomes(w)
    /\ UNCHANGED <<env, req, now, recVars, callVars, hsVars>>

SentimentSettles(outcome) ==
    /\ ea.pc = "awaitSentiment"
    /\ sent.pc = "call"
    /\ \E w \in {sentimentSettles(World, outcome)} : Becomes(w)
    /\ UNCHANGED <<env, req, now, recVars, callVars, hsVars>>

SentimentDelayElapsed ==
    /\ ea.pc = "awaitSentiment"
    /\ sent.pc = "delay"
    /\ \E w \in {sentimentDelayElapsed(World)} : Becomes(w)
    /\ UNCHANGED <<env, req, now, recVars, callVars, hsVars>>

AAPL == <<"a", "a", "p", "l">>

EARequests ==
    {[method |-> m, query |-> [ticker |-> t]] :
        m \in {"GET", "OPTIONS", "POST"}, t \in {UNDEF, Str(AAPL)}}

EAEnvs == {[API_KEY |-> k] : k \in {UNDEF, Str(<<"k", "e", "y">>)}}

Transcript(split, text) ==
    [date |-> Str(<<"2", "0", "2", "4">>), quarter |-> Num(1), year |-> Num(2024),
     transcript |-> text, transcript_split |-> split, participants |-> UNDEF]

Turn(role, text) == [role |-> role, text |-> Str(text)]
Analyst == Str(<<"A", "n", "a", "l", "y", "s", "t">>)

\* the bodies the transcript endpoint answers with: turns with an executive
\* speaking two sentences; the same kind of turns as JSON text; turns that
\* are not JSON with the raw text beside them; neither turns nor text; a
\* turn whose role is a number; the JSON null
TranscriptBodies ==
    {Transcript(Arr(<<Turn(Analyst, LongSentence(3)), Turn(Str(keyRoles[1]), TextOf(2))>>), UNDEF),
     Transcript(JStr(Arr(<<Turn(Str(keyRoles[2]), LongSentence(1))>>)), UNDEF),
     Transcript(Str(LongSentence(2)), Str(LongSentence(2))),
     Transcript(UNDEF, UNDEF),
     Transcript(Arr(<<Turn(Num(7), LongSentence(1))>>), UNDEF),
     NULL}

StockBodies == {[price |-> Num(190), ticker |-> Str(toUpperCase(AAPL))], NULL}

EATrends == {[trendPercent |-> Num(t)] : t \in {-80, 80}}

EAEconomics ==
    {[indicators |-> UNDEF],
     [indicators |-> [inflation    |-> Indicator(Num(20), TRUE),
                      unemployment |-> Indicator(Num(40), TRUE),
                      mortgageRate |-> UNDEF]]}

EASentiments == SentimentOutcomes({"POSITIVE", "NEGATIVE"}, {Dec(20), Dec(80)})

EAInit ==
    /\ RecIdle
    /\ SentIdle
    /\ CallIdle
    /\ HsIdle
    /\ env \in EAEnvs
    /\ req = NULL
    /\ res = NULL
    /\ ea = eaIdle
    /\ cache = <<>>
    /\ now \in {0, CACHE_TTL}

EANext ==
    \/ \E r \in EARequests : Receive(r)
    \/ \E o \in Upstream(TranscriptBodies) : TranscriptSettles(o)
    \/ \E o \in Upstream(StockBodies) : StockSettles(o)
    \/ \E o \in Upstream(EATrends) : HistoricalSettles(o)
    \/ \E o \in Upstream(EAEconomics \cup {NULL}) : EconomicsSettles(o)
    \/ \E r \in OwnResponses({[statistics |-> t] : t \in EATrends}) : HistoryFallbackSettles(r)
    \/ \E r \in OwnResponses(EAEconomics) : EconomicsFallbackSettles(r)
    \/ \E o \in EASentiments : SentimentSettles(o)
    \/ SentimentDelayElapsed

SpecEA == EAInit /\ [][EANext]_vars

----------------------------------------------------------------------------
(* extractKeyStatements applied to transcript records of every shape.      *)

ViceChairman == Str(<<"V", "i", "c", "e", " ">> \o keyRoles[3])

ExRoles == {UNDEF, Analyst, Str(keyRoles[1]), ViceChairman, Num(7)}

ExTexts == {UNDEF, Str(<<>>), Str(LongSentence(1))}

ExTurns == {NULL} \cup {[role |-> r, text |-> t] : r \in ExRoles, t \in ExTexts}

MaxTurns == 2

\* four executive turns, more than the three the extractor keeps
FourTurns == [k \in 1..4 |-> Turn(Str(keyRoles[2]), LongSentence(k))]

ExTurnLists ==
    UNION {[1..n -> ExTurns] : n \in 0..MaxTurns} \cup {FourTurns}

ExSplits ==
    {UNDEF, NULL, Num(3), Str(<<"n", "/", "a">>), JStr(NULL), JStr([turns |-> Arr(<<>>)])}
      \cup {Arr(l) : l \in ExTurnLists}
      \cup {JStr(Arr(l)) : l \in ExTurnLists}

\* a raw text longer than the tail the extractor falls back to
LongText == [j \in 1..(tailLength + 3) |-> IF j <= 3 THEN "x" ELSE "y"]

ExRawTexts == {UNDEF, Str(<<>>), Num(5), Str(ShortSentence), Str(LongText)}

ExTranscripts ==
    {NULL, UNDEF} \cup {Transcript(sp, t) : sp \in ExSplits, t \in ExRawTexts}

ExInit ==
    /\ RecIdle
    /\ SentIdle
    /\ EAIdle
    /\ HsIdle
    /\ callArgs \in ExTranscripts
    /\ callResult = NULL

CallExtractKeyStatements ==
    /\ callResult = NULL
    /\ callResult' = extractKeyStatements(callArgs)
    /\ UNCHANGED <<callArgs, recVars, sent, eaVars, hsVars>>

ExNext == CallExtractKeyStatements

SpecExtract == ExInit /\ [][ExNext]_vars

----------------------------------------------------------------------------
(* The endpoints other than earnings-analysis. A process hosts one         *)
(* function (fn); its module keeps one Map for as long as the process      *)
(* lives, and every request is one invocation of the handler, which stands *)
(* at each await until the awaited upstream request settles. Invocations   *)
(* may overlap; hs holds them in order of arrival.                         *)

\* a JavaScript Map: its entries in insertion order
get(map, key) ==
    IF \E k \in 1..Len(map) : map[k].key = key
    THEN map[CHOOSE k \in 1..Len(map) : map[k].key = key].value
    ELSE UNDEF

\* Map.set keeps the position of a key that is already there
set(map, key, value) ==
    IF \E k \in 1..Len(map) : map[k].key = key
    THEN [k \in 1..Len(map) |->
            IF map[k].key = key THEN [key |-> key, value |-> value] ELSE map[k]]
    ELSE Append(map, [key |-> key, value |-> value])

delete(map, key) == SelectSeq(map, LAMBDA e : e.key # key)

size(map) == Len(map)

\* map.keys().next().value
firstKey(map) == IF map = <<>> THEN UNDEF ELSE map[1].key

\* the handler is called with a request
invoke(s, request) ==
    [s EXCEPT !.hs = Append(@, [req |-> request, at |-> s.now, pc |-> "start", res |-> NULL])]

\* res.status(status).json(body) or .end(), and the handler returns
reply(s, i, status, body) ==
    [s EXCEPT !.hs[i].res = [status |-> status, body |-> body], !.hs[i].pc = "done"]

\* an upstream request goes out on behalf of invocation i, which waits at pc
await(s, i, path, pc) ==
    [s EXCEPT !.calls = Append(@, [by |-> i, path |-> path, outcome |-> PENDING]),
              !.hs[i].pc = pc]

\* the upstream request invocation i waits for: its latest one
pending(log, i) ==
    CHOOSE k \in 1..Len(log) : log[k].by = i /\ \A j \in (k + 1)..Len(log) : log[j].by # i

\* that request ends
settle(s, i, outcome) == [s EXCEPT !.calls[pending(s.calls, i)].outcome = outcome]

----------------------------------------------------------------------------
(* The raw earnings endpoint (the variant with the previous-quarter        *)
(* fallback).                                                              *)

EARNINGS_CACHE_TTL == 24 * 60 * 60 * 1000

\* how the promise of this module's fetchFromApiNinjas settles: only a
\* network error rejects, and there is no timeout
earningsFetchFromApiNinjas(outcome) ==
    CASE outcome.kind = "ok"      -> Returns([success |-> TRUE, data |-> outcome.data, statusCode |-> 200])
      [] outcome.kind = "parse"   -> Returns([success |-> FALSE, statusCode |-> 200])
      [] outcome.kind = "status"  -> Returns([success |-> FALSE, statusCode |-> outcome.statusCode])
      [] outcome.kind = "network" -> Throws("Network error")

\* date: the local calendar reading of new Date(), month 0..11
getMostRecentQuarter(date) ==
    IF date.month >= 10 THEN [quarter |-> 3, year |-> date.year]
    ELSE IF date.month >= 7 THEN [quarter |-> 2, year |-> date.year]
    ELSE IF date.month >= 4 THEN [quarter |-> 1, year |-> date.year]
    ELSE [quarter |-> 4, year |-> date.year - 1]

\* `/v1/earnings?ticker=${ticker}&year=${year}&quarter=${quarter}`
earningsPath(ticker, period) ==
    [ticker |-> ticker, year |-> period.year, quarter |-> period.quarter]

\* lines 106-108
previousQuarter(period) ==
    [quarter |-> IF period.quarter = 1 THEN 4 ELSE period.quarter - 1,
     year |-> IF period.quarter = 1 THEN period.year - 1 ELSE period.year]

\* the answer without the cache write
earningsAnswer_uncached(s, i, earningsData) ==
    IF ~TruthyVal(earningsData)
    THEN reply(s, i, 404, [success |-> FALSE,
                           error |-> "Earnings data not available for this ticker"])
    ELSE reply(s, i, 200, [success |-> TRUE, cached |-> FALSE, data |-> earningsData])

\* lines 173-190: the handler after fetchEarningsData returned earningsData
earningsAnswer(s, i, earningsData) ==
    IF ~TruthyVal(earningsData)
    THEN reply(s, i, 404, [success |-> FALSE,
                           error |-> "Earnings data not available for this ticker"])
    ELSE reply([s EXCEPT !.cache = set(@, s.hs[i].tickerUpper,
                                       [data |-> earningsData, timestamp |-> s.now])],
               i, 200, [success |-> TRUE, cached |-> FALSE, data |-> earningsData])

\* lines 132-171 and 95-101: from the arrival of the request to the first await
earningsHandler(s, i, environment, date) ==
    IF s.hs[i].req.method = "OPTIONS" THEN reply(s, i, 200, UNDEF)
    ELSE IF ~TruthyVal(environment.API_KEY)
    THEN reply(s, i, 500, [error |-> "API_KEY not configured"])
    ELSE IF ~TruthyVal(s.hs[i].req.query.ticker)
    THEN reply(s, i, 400, [error |-> "Missing ticker parameter"])
    ELSE
      LET tickerUpper == toUpperCase(s.hs[i].req.query.ticker.str)
          cached == get(s.cache, tickerUpper)
          period == getMostRecentQuarter(date)
      IN  IF TruthyVal(cached) /\ s.now - cached.timestamp < EARNINGS_CACHE_TTL
          THEN reply(s, i, 200, [success |-> TRUE, cached |-> TRUE, data |-> cached.data])
          ELSE await([s EXCEPT !.hs[i] = [tickerUpper |-> tickerUpper, period |-> period] @@ @],
                     i, earningsPath(tickerUpper, period), "first")

\* lines 101-129: the first request settles
earningsFirstSettles(s, i, outcome) ==
    LET result == earningsFetchFromApiNinjas(outcome)
    IN  IF result.threw THEN earningsAnswer(s, i, NULL)
        ELSE IF ~result.value.success
        THEN await(s, i, earningsPath(s.hs[i].tickerUpper, previousQuarter(s.hs[i].period)),
                   "fallback")
        ELSE IF ~Truthy(result.value.data)
        THEN earningsAnswer(s, i, NULL)   \* result.data.filing_info throws into the catch
        ELSE earningsAnswer(s, i, result.value.data)

\* lines 111-119: the request for the previous quarter settles
earningsFallbackSettles(s, i, outcome) ==
    LET fallbackResult == earningsFetchFromApiNinjas(outcome)
    IN  IF fallbackResult.threw THEN earningsAnswer(s, i, NULL)
        ELSE IF ~fallbackResult.value.success THEN earningsAnswer(s, i, NULL)
        ELSE earningsAnswer(s, i, fallbackResult.value.data)

----------------------------------------------------------------------------
(* The actions of the raw earnings endpoint.                               *)

Server == [hs |-> hs, calls |-> calls, cache |-> cache, now |-> now]

Serves(s) ==
    /\ hs' = s.hs
    /\ calls' = s.calls
    /\ cache' = s.cache

\* the path of the upstream request invocation i waits for
pendingPath(i) == calls[pending(calls, i)].path

EarningsReceive(request, date) ==
    /\ fn = "earnings"
    /\ Serves(earningsHandler(invoke(Server, request), Len(hs) + 1, env, date))
    /\ UNCHANGED <<fn, env, now, req, res, ea, sent, recVars, callVars>>

EarningsFirstSettles(i, outcome) ==
    /\ fn = "earnings"
    /\ hs[i].pc = "first"
    /\ Serves(earningsFirstSettles(settle(Server, i, outcome), i, outcome))
    /\ UNCHANGED <<fn, env, now, req, res, ea, sent, recVars, callVars>>

EarningsFallbackSettles(i, outcome) ==
    /\ fn = "earnings"
    /\ hs[i].pc = "fallback"
    /\ Serves(earningsFallbackSettles(settle(Server, i, outcome), i, outcome))
    /\ UNCHANGED <<fn, env, now, req, res, ea, sent, recVars, callVars>>

\* what the provider can answer to a request for one quarter's filing
Filing(path, revenue) ==
    [ticker |-> Str(path.ticker),
     filing_info |-> [fiscal_year |-> Num(path.year), fiscal_period |-> Num(path.quarter)],
     income_statement |-> [revenue |-> Num(revenue)]]

EarningsUpstream(path, revenues) ==
    {[kind |-> "ok", data |-> d] : d \in {Filing(path, r) : r \in revenues} \cup {NULL}}
      \cup {[kind |-> "parse"], [kind |-> "status", statusCode |-> 404], [kind |-> "network"]}

Methods == {"GET", "OPTIONS", "POST"}

MSFT == <<"M", "S", "F", "T">>

TickerRequests(tickers) ==
    {[method |-> m, query |-> [ticker |-> t]] : m \in Methods, t \in tickers}

Dates == {[year |-> y, month |-> m] : y \in {2025, 2026}, m \in 0..11}

\* one request to a cold process, for every calendar month and every way
\* the two upstream requests can end
EarningsInit ==
    /\ RecIdle
    /\ SentIdle
    /\ CallIdle
    /\ req = NULL
    /\ res = NULL
    /\ ea = eaIdle
    /\ env \in EAEnvs
    /\ fn = "earnings"
    /\ hs = <<>>
    /\ calls = <<>>
    /\ cache = <<>>
    /\ now = 0

EarningsNext ==
    \/ /\ hs = <<>>
       /\ \E r \in TickerRequests({UNDEF, Str(<<>>), Str(AAPL), Str(MSFT)}), d \in Dates : EarningsReceive(r, d)
    \/ \E i \in 1..Len(hs) :
         /\ hs[i].pc = "first"
         /\ \E o \in EarningsUpstream(pendingPath(i), {1}) : EarningsFirstSettles(i, o)
    \/ \E i \in 1..Len(hs) :
         /\ hs[i].pc = "fallback"
         /\ \E o \in EarningsUpstream(pendingPath(i), {1}) : EarningsFallbackSettles(i, o)

SpecEarnings == EarningsInit /\ [][EarningsNext]_vars

----------------------------------------------------------------------------
(* The economics endpoint.                                                 *)

ECONOMICS_CACHE_TTL == 60 * 60 * 1000

\* how the promise of this module's fetchFromApiNinjas settles: a 200 whose
\* body is not JSON, a network error and the 5 s timeout reject
economicsFetchFromApiNinjas(outcome) ==
    CASE outcome.kind = "ok"      -> Returns([success |-> TRUE, data |-> outcome.data, statusCode |-> 200])
      [] outcome.kind = "status"  -> Returns([success |-> FALSE, statusCode |-> outcome.statusCode])
      [] outcome.kind = "parse"   -> Throws("Failed to parse JSON")
      [] outcome.kind = "network" -> Throws("Network error")
      [] outcome.kind = "timeout" -> Throws("Timeout")

\* a JSON object, and the read of one of its properties
Obj(fields) == [obj |-> fields]
IsObj(v) == "obj" \in DOMAIN v
prop(o, name) == IF IsObj(o) /\ name \in DOMAIN o.obj THEN o.obj[name] ELSE UNDEF

\* a || b || c: the first truthy operand, or the last one
RECURSIVE or(_)
or(operands) ==
    IF Len(operands) = 1 \/ TruthyVal(Head(operands)) THEN Head(operands)
    ELSE or(Tail(operands))

NaN == [nan |-> TRUE]

Digits == <<"0", "1", "2", "3", "4", "5", "6", "7", "8", "9">>

RECURSIVE digitsValue(_)
digitsValue(chars) ==
    IF chars = <<>> THEN 0
    ELSE 10 * digitsValue(SubSeq(chars, 1, Len(chars) - 1))
           + (CHOOSE d \in 0..9 : Digits[d + 1] = chars[Len(chars)])

\* parseFloat of a number, of a string of digits, and of anything else here
parseFloat(v) ==
    IF IsNum(v) THEN v
    ELSE IF IsStr(v) /\ v.str # <<>> /\ \A k \in 1..Len(v.str) : \E d \in 1..10 : Digits[d] = v.str[k]
    THEN Num(digitsValue(v.str))
    ELSE NaN

\* the value and period read from one record of a response, or null;
\* reading a property of null throws into the catch of the fetcher
rateOf(latest, rateFields, periodFields, current) ==
    IF ~Truthy(latest) THEN NULL
    ELSE LET rateValue == or([k \in 1..Len(rateFields) |-> prop(latest, rateFields[k])])
         IN  IF rateValue # UNDEF /\ rateValue # NULL
             THEN [value |-> parseFloat(rateValue),
                   period |-> or([k \in 1..Len(periodFields) |-> prop(latest, periodFields[k])]
                                   \o <<Str(current)>>)]
             ELSE NULL

\* the body of a fetcher after its await: null on a rejection or a failure
fetched(outcome, arrayFields, objectFields, periodFields, current) ==
    LET result == economicsFetchFromApiNinjas(outcome)
    IN  IF result.threw THEN NULL
        ELSE IF ~result.value.success THEN NULL
        ELSE LET jsonData == result.value.data
             IN  IF IsArr(jsonData) /\ Len(jsonData.arr) > 0
                 THEN rateOf(jsonData.arr[1], arrayFields, periodFields, current)
                 ELSE IF objectFields # <<>> /\ IsObj(jsonData)
                 THEN rateOf(jsonData, objectFields, periodFields, current)
                 ELSE NULL

fetchInflationData(outcome) ==
    fetched(outcome, <<"yearly_rate_pct", "rate", "inflation_rate", "value">>, <<>>,
            <<"period", "year", "date">>, "Recent")

fetchInterestRateData(outcome) ==
    fetched(outcome, <<"rate_pct", "rate", "value", "central_bank_rate">>,
            <<"rate_pct", "rate", "value">>,
            <<"last_updated", "period", "date">>, "Current")

fetchMortgageRateData(outcome) ==
    fetched(outcome, <<"rate_30_year", "rate", "value">>, <<"rate_30_year", "rate", "value">>,
            <<"date", "period", "week">>, "Current")

fetchUnemploymentData(outcome) ==
    fetched(outcome, <<"overall_unemployment_rate", "unemployment_rate", "rate", "value">>,
            <<"overall_unemployment_rate", "unemployment_rate", "rate", "value">>,
            <<"period", "date", "year_month">>, "Current")

\* rate < k, false for NaN
below(rate, k) == IsNum(rate) /\ rate.num < k

getInflationStatus(rate) ==
    IF below(rate, 2) THEN [level |-> "good", label |-> "Low"]
    ELSE IF below(rate, 4) THEN [level |-> "moderate", label |-> "Moderate"]
    ELSE [level |-> "concerning", label |-> "High"]

getUnemploymentStatus(rate) ==
    IF below(rate, 4) THEN [level |-> "good", label |-> "Low"]
    ELSE IF below(rate, 6) THEN [level |-> "moderate", label |-> "Moderate"]
    ELSE [level |-> "concerning", label |-> "High"]

getInterestRateStatus(rate) ==
    IF below(rate, 2) THEN [level |-> "info", label |-> "Low"]
    ELSE IF below(rate, 4) THEN [level |-> "info", label |-> "Moderate"]
    ELSE [level |-> "info", label |-> "High"]

getMortgageRateStatus(rate) ==
    IF below(rate, 4) THEN [level |-> "good", label |-> "Low"]
    ELSE IF below(rate, 6) THEN [level |-> "moderate", label |-> "Moderate"]
    ELSE [level |-> "concerning", label |-> "High"]

\* one entry of the indicators object
indicator(name, data, status) ==
    IF Truthy(data)
    THEN [name |-> name, value |-> data.value, period |-> data.period,
          status |-> status, available |-> TRUE]
    ELSE [name |-> name, value |-> NULL, period |-> UNDEF,
          status |-> [level |-> "info", label |-> "N/A"], available |-> FALSE]

\* the sources of the fan-out in the order of the Promise.all, and in the
\* order the handler pushes them to availableSources
Indicators == <<"inflation", "interestRate", "mortgageRate", "unemployment">>
ResponseOrder == <<"inflation", "mortgageRate", "unemployment", "interestRate">>

\* lines 339-455: the four promises have settled to h.data
economicsAssemble(s, i) ==
    LET d == s.hs[i].data
        indicators ==
            [inflation |-> indicator("Inflation Rate", d.inflation,
                                     getInflationStatus(d.inflation.value)),
             mortgageRate |-> indicator("Mortgage Rate (30-yr)", d.mortgageRate,
                                        getMortgageRateStatus(d.mortgageRate.value)),
             unemployment |-> indicator("Unemployment Rate", d.unemployment,
                                        getUnemploymentStatus(d.unemployment.value)),
             interestRate |-> indicator("Fed Interest Rate", d.interestRate,
                                        getInterestRateStatus(d.interestRate.value))]
        availableSources == SelectSeq(ResponseOrder, LAMBDA n : Truthy(d[n]))
        responseData ==
            [indicators |-> indicators, lastUpdated |-> s.now,
             source |-> availableSources,
             availableCount |-> Len(availableSources), totalIndicators |-> 4]
    IN  reply([s EXCEPT !.cache = set(@, "economic_indicators",
                                      [timestamp |-> s.now, data |-> responseData])],
              i, 200, [success |-> TRUE, cached |-> FALSE, timestamp |-> s.now,
                       data |-> responseData])

\* lines 289-337: from the arrival of the request to the Promise.all
economicsHandler(s, i, environment) ==
    IF s.hs[i].req.method = "OPTIONS" THEN reply(s, i, 200, UNDEF)
    ELSE IF s.hs[i].req.method # "GET"
    THEN reply(s, i, 405, [error |-> "Method not allowed",
                           message |-> "This endpoint only accepts GET requests"])
    ELSE IF ~TruthyVal(environment.API_KEY)
    THEN reply(s, i, 500, [error |-> "Configuration error",
                           message |-> "API_KEY environment variable is not configured"])
    ELSE
      LET cached == get(s.cache, "economic_indicators")
      IN  IF TruthyVal(cached) /\ s.now - cached.timestamp < ECONOMICS_CACHE_TTL
          THEN reply(s, i, 200, [success |-> TRUE, cached |-> TRUE,
                                 timestamp |-> cached.timestamp, data |-> cached.data])
          ELSE [s EXCEPT
                  !.calls = @ \o [k \in 1..Len(Indicators) |->
                                    [by |-> i, path |-> Indicators[k], outcome |-> PENDING]],
                  !.hs[i] = [data |-> [n \in {Indicators[k] : k \in 1..Len(Indicators)} |-> PENDING]]
                              @@ [@ EXCEPT !.pc = "fanout"]]

\* the upstream request of invocation i for one source
callOf(log, i, path) ==
    CHOOSE k \in 1..Len(log) : log[k].by = i /\ log[k].path = path

\* one fetcher of the fan-out returns; the handler goes on once all four have
indicatorSettles(s, i, source, outcome) ==
    LET data ==
            CASE source = "inflation"    -> fetchInflationData(outcome)
              [] source = "interestRate" -> fetchInterestRateData(outcome)
              [] source = "mortgageRate" -> fetchMortgageRateData(outcome)
              [] source = "unemployment" -> fetchUnemploymentData(outcome)
        t == [s EXCEPT !.calls[callOf(s.calls, i, source)].outcome = outcome,
                       !.hs[i].data[source] = data]
    IN  IF \A n \in DOMAIN t.hs[i].data : t.hs[i].data[n] # PENDING
        THEN economicsAssemble(t, i)
        ELSE t

----------------------------------------------------------------------------
(* The actions of the economics endpoint.                                  *)

EconomicsReceive(request) ==
    /\ fn = "economics"
    /\ Serves(economicsHandler(invoke(Server, request), Len(hs) + 1, env))
    /\ UNCHANGED <<fn, env, now, req, res, ea, sent, recVars, callVars>>

IndicatorSettles(i, source, outcome) ==
    /\ fn = "economics"
    /\ hs[i].pc = "fanout"
    /\ hs[i].data[source] = PENDING
    /\ Serves(indicatorSettles(Server, i, source, outcome))
    /\ UNCHANGED <<fn, env, now, req, res, ea, sent, recVars, callVars>>

\* a record of a response: the rate under the first or the last of the names
\* the fetchers try, as a number (0 included) or as text, or no rate at all
RateRecords ==
    {Obj([rate |-> r]) : r \in {Num(0), Num(5), Str(<<"n", "/", "a">>)}}
      \cup {Obj([value |-> Num(0)]), Obj([country |-> Str(<<"U", "S">>)])}

\* a response body: an array of records or a single record
RateBodies ==
    {Arr(<<o>>) : o \in {Obj([rate |-> Num(0)]), Obj([rate |-> Num(5)]), NULL}}
      \cup RateRecords \cup {Arr(<<>>)}

RateUpstream ==
    {[kind |-> "ok", data |-> d] : d \in RateBodies}
      \cup {[kind |-> "status", statusCode |-> 404],
            [kind |-> "parse"], [kind |-> "network"], [kind |-> "timeout"]}

PlainRequests == {[method |-> m, query |-> [ticker |-> UNDEF]] : m \in Methods}

----------------------------------------------------------------------------
(* The stock-price endpoint.                                               *)

COMPANIES ==
    <<[ticker |-> "AAPL", name |-> "Apple Inc."],
      [ticker |-> "MSFT", name |-> "Microsoft Corporation"],
      [ticker |-> "GOOGL", name |-> "Alphabet Inc. (Google)"],
      [ticker |-> "META", name |-> "Meta Platforms Inc."],
      [ticker |-> "AMZN", name |-> "Amazon.com Inc."]>>

\* how the promise of fetchStockPrice settles: it resolves to the parsed body
\* of a 200 and rejects on everything else
fetchStockPrice(outcome) ==
    CASE outcome.kind = "ok"      -> Returns(outcome.data)
      [] outcome.kind = "status"  -> Throws("Failed to fetch")
      [] outcome.kind = "parse"   -> Throws("Failed to parse JSON")
      [] outcome.kind = "network" -> Throws("Network error")

\* lines 109-132: the async callback of COMPANIES.map for one company, after
\* its await; reading price of a null body throws into the same catch
stockEntry(company, settled, clock) ==
    IF settled.threw \/ ~Truthy(settled.value)
    THEN [ticker |-> company.ticker, companyName |-> company.name, price |-> NULL,
          timestamp |-> clock, success |-> FALSE]
    ELSE [ticker |-> company.ticker, companyName |-> company.name,
          price |-> or(<<prop(settled.value, "price"), NULL>>),
          timestamp |-> clock, success |-> TRUE]

\* the 503 given as soon as one company failed
stocksAnswer_some(s, i) ==
    IF \E k \in 1..Len(s.hs[i].data) : ~s.hs[i].data[k].success
    THEN reply(s, i, 503, [error |-> "Service unavailable", data |-> s.hs[i].data])
    ELSE reply(s, i, 200, [success |-> TRUE, timestamp |-> s.now, data |-> s.hs[i].data])

\* lines 135-155: all five promises have settled to stocksData
stocksAnswer(s, i) ==
    IF \A k \in 1..Len(s.hs[i].data) : ~s.hs[i].data[k].success
    THEN reply(s, i, 503, [error |-> "Service unavailable", data |-> s.hs[i].data])
    ELSE reply(s, i, 200, [success |-> TRUE, timestamp |-> s.now, data |-> s.hs[i].data])

\* the stock handler without the check of the credential
stocksHandler_unchecked(s, i, environment) ==
    IF s.hs[i].req.method = "OPTIONS" THEN reply(s, i, 200, UNDEF)
    ELSE IF s.hs[i].req.method # "GET"
    THEN reply(s, i, 405, [error |-> "Method not allowed",
                           message |-> "This endpoint only accepts GET requests"])
    ELSE [s EXCEPT
            !.calls = @ \o [k \in 1..Len(COMPANIES) |->
                              [by |-> i, path |-> COMPANIES[k].ticker, outcome |-> PENDING]],
            !.hs[i] = [data |-> [k \in 1..Len(COMPANIES) |-> PENDING]]
                        @@ [@ EXCEPT !.pc = "fanout"]]

\* lines 78-134: from the arrival of the request to the Promise.all
stocksHandler(s, i, environment) ==
    IF s.hs[i].req.method = "OPTIONS" THEN reply(s, i, 200, UNDEF)
    ELSE IF s.hs[i].req.method # "GET"
    THEN reply(s, i, 405, [error |-> "Method not allowed",
                           message |-> "This endpoint only accepts GET requests"])
    ELSE IF ~TruthyVal(environment.API_KEY)
    THEN reply(s, i, 500, [error |-> "Configuration error",
                           message |-> "API_KEY environment variable is not configured"])
    ELSE [s EXCEPT
            !.calls = @ \o [k \in 1..Len(COMPANIES) |->
                              [by |-> i, path |-> COMPANIES[k].ticker, outcome |-> PENDING]],
            !.hs[i] = [data |-> [k \in 1..Len(COMPANIES) |-> PENDING]]
                        @@ [@ EXCEPT !.pc = "fanout"]]

\* the request for company k settles; the handler goes on once all have
stockPriceSettles(s, i, k, outcome) ==
    LET t == [s EXCEPT !.calls[callOf(s.calls, i, COMPANIES[k].ticker)].outcome = outcome,
                       !.hs[i].data[k] = stockEntry(COMPANIES[k], fetchStockPrice(outcome), s.now)]
    IN  IF \A j \in 1..Len(COMPANIES) : t.hs[i].data[j] # PENDING
        THEN stocksAnswer(t, i)
        ELSE t

StocksReceive(request) ==
    /\ fn = "stocks"
    /\ Serves(stocksHandler(invoke(Server, request), Len(hs) + 1, env))
    /\ UNCHANGED <<fn, env, now, req, res, ea, sent, recVars, callVars>>

StockPriceSettles(i, k, outcome) ==
    /\ fn = "stocks"
    /\ hs[i].pc = "fanout"
    /\ hs[i].data[k] = PENDING
    /\ Serves(stockPriceSettles(Server, i, k, outcome))
    /\ UNCHANGED <<fn, env, now, req, res, ea, sent, recVars, callVars>>

StockUpstream ==
    {[kind |-> "ok", data |-> d] : d \in {Obj([price |-> Num(190)]), Obj([price |-> Num(0)]), NULL}}
      \cup {[kind |-> "status", statusCode |-> 429], [kind |-> "network"]}

\* one request to a cold process of either fan-out endpoint
FanoutInit ==
    /\ RecIdle
    /\ SentIdle
    /\ CallIdle
    /\ req = NULL
    /\ res = NULL
    /\ ea = eaIdle
    /\ env \in EAEnvs
    /\ fn \in {"stocks", "economics"}
    /\ hs = <<>>
    /\ calls = <<>>
    /\ cache = <<>>
    /\ now = 0

FanoutNext ==
    \/ /\ hs = <<>>
       /\ \E r \in PlainRequests : EconomicsReceive(r)
    \/ \E i \in 1..Len(hs), n \in {Indicators[k] : k \in 1..Len(Indicators)}, o \in RateUpstream :
         IndicatorSettles(i, n, o)
    \/ /\ hs = <<>>
       /\ \E r \in PlainRequests : StocksReceive(r)
    \/ \E i \in 1..Len(hs), k \in 1..Len(COMPANIES), o \in StockUpstream :
         StockPriceSettles(i, k, o)

SpecFanout == FanoutInit /\ [][FanoutNext]_vars

----------------------------------------------------------------------------
(* The history endpoint: the statistics of a price series.                 *)

RECURSIVE fmax(_)
fmax(xs) ==
    IF Len(xs) = 1 THEN xs[1]
    ELSE IF fgt(Head(xs), fmax(Tail(xs))) THEN Head(xs) ELSE fmax(Tail(xs))

RECURSIVE fmin(_)
fmin(xs) ==
    IF Len(xs) = 1 THEN xs[1]
    ELSE IF flt(Head(xs), fmin(Tail(xs))) THEN Head(xs) ELSE fmin(Tail(xs))

\* prices.reduce((sum, p) => sum + p, 0)
RECURSIVE fsum(_)
fsum(xs) == IF xs = <<>> THEN DZero ELSE fadd(fsum(SubSeq(xs, 1, Len(xs) - 1)), xs[Len(xs)])

\* ((lastPrice - firstPrice) / firstPrice) * 100
trendPercentOf(prices) ==
    fmul(fdivide(fsub(prices[Len(prices)], prices[1]), prices[1]), 100)

\* lines 661-681: the statistics object; the direction is taken from the
\* unrounded trend
statisticsOf(prices, trendPercent) ==
    [high |-> toFixed2(fmax(prices)),
     low |-> toFixed2(fmin(prices)),
     average |-> toFixed2(fdiv(fsum(prices), Len(prices))),
     trendPercent |-> toFixed2(trendPercent),
     trendDirection |-> IF fge(trendPercent, DZero) THEN "up" ELSE "down"]

statistics(prices) == statisticsOf(prices, trendPercentOf(prices))

----------------------------------------------------------------------------
(* The history endpoint: the fetcher and the handler.                      *)

HISTORY_CACHE_TTL == 5 * 60 * 1000

\* the size above which the handler deletes the first key of its cache
maxCacheSize == 20

\* statistics of a series in which a close is missing (undefined passes the
\* filter for null): Math.max, Math.min and the sum give NaN
statisticsWithGaps(prices) ==
    IF \A k \in 1..Len(prices) : prices[k] # UNDEF THEN statistics(prices)
    ELSE IF prices[1] # UNDEF /\ prices[Len(prices)] # UNDEF
    THEN [statisticsOf(<<prices[1], prices[Len(prices)]>>,
                       trendPercentOf(<<prices[1], prices[Len(prices)]>>))
            EXCEPT !.high = NaN, !.low = NaN, !.average = NaN]
    ELSE [high |-> NaN, low |-> NaN, average |-> NaN, trendPercent |-> NaN,
          trendDirection |-> "down"]

\* lines 647-655: one data point per timestamp, those with a null close dropped
dataPointsOf(result) ==
    SelectSeq([k \in 1..Len(result.timestamp) |->
                  [date |-> result.timestamp[k] \div 86400,
                   price |-> IF k <= Len(result.close) THEN result.close[k] ELSE UNDEF]],
              LAMBDA point : point.price # NULL)

\* the historical data of a chart result with at least one data point
historicalDataOf(ticker, dataPoints) ==
    [ticker |-> ticker, dataPoints |-> dataPoints,
     statistics |-> statisticsWithGaps([k \in 1..Len(dataPoints) |-> dataPoints[k].price])]

\* how the promise of fetchYahooFinanceData settles
fetchYahooFinanceData(ticker, outcome) ==
    CASE outcome.kind = "ok" ->
           IF ~Truthy(outcome.data.result) THEN Throws("No data found")
           ELSE IF dataPointsOf(outcome.data.result) = <<>> THEN Throws("No valid price data")
           ELSE Returns(historicalDataOf(ticker, dataPointsOf(outcome.data.result)))
      [] outcome.kind = "parse"   -> Throws("Failed to parse Yahoo Finance data")
      [] outcome.kind = "status"  -> Throws("Yahoo Finance API error")
      [] outcome.kind = "network" -> Throws("Network error")

\* the history handler with an entry of age CACHE_TTL still served
historyHandler_inclusive(s, i) ==
    IF s.hs[i].req.method = "OPTIONS" THEN reply(s, i, 200, UNDEF)
    ELSE IF s.hs[i].req.method # "GET"
    THEN reply(s, i, 405, [error |-> "Method not allowed",
                           message |-> "This endpoint only accepts GET requests"])
    ELSE IF ~TruthyVal(s.hs[i].req.query.ticker)
    THEN reply(s, i, 400, [error |-> "Bad request",
                           message |-> "Ticker parameter is required"])
    ELSE
      LET cacheKey == toUpperCase(s.hs[i].req.query.ticker.str)
          cached == get(s.cache, cacheKey)
      IN  IF TruthyVal(cached) /\ s.now - cached.timestamp <= HISTORY_CACHE_TTL
          THEN reply(s, i, 200, [success |-> TRUE, cached |-> TRUE, data |-> cached.data])
          ELSE await([s EXCEPT !.hs[i] = [cacheKey |-> cacheKey] @@ @],
                     i, s.hs[i].req.query.ticker.str, "yahoo")

\* lines 703-746: from the arrival of the request to the await
historyHandler(s, i) ==
    IF s.hs[i].req.method = "OPTIONS" THEN reply(s, i, 200, UNDEF)
    ELSE IF s.hs[i].req.method # "GET"
    THEN reply(s, i, 405, [error |-> "Method not allowed",
                           message |-> "This endpoint only accepts GET requests"])
    ELSE IF ~TruthyVal(s.hs[i].req.query.ticker)
    THEN reply(s, i, 400, [error |-> "Bad request",
                           message |-> "Ticker parameter is required"])
    ELSE
      LET cacheKey == toUpperCase(s.hs[i].req.query.ticker.str)
          cached == get(s.cache, cacheKey)
      IN  IF TruthyVal(cached) /\ s.now - cached.timestamp < HISTORY_CACHE_TTL
          THEN reply(s, i, 200, [success |-> TRUE, cached |-> TRUE, data |-> cached.data])
          ELSE await([s EXCEPT !.hs[i] = [cacheKey |-> cacheKey] @@ @],
                     i, s.hs[i].req.query.ticker.str, "yahoo")

\* lines 755-758
cleaned(map) == IF size(map) > maxCacheSize THEN delete(map, firstKey(map)) ELSE map

\* the settled request with the failure stored as well
yahooSettled_storingFailure(s, i, historicalData) ==
    IF historicalData.threw
    THEN reply([s EXCEPT !.cache = set(@, s.hs[i].cacheKey,
                                       [timestamp |-> s.now, data |-> NULL])],
               i, 500, [error |-> "Internal server error", message |-> historicalData.error])
    ELSE reply([s EXCEPT !.cache = cleaned(set(@, s.hs[i].cacheKey,
                                               [timestamp |-> s.now,
                                                data |-> historicalData.value]))],
               i, 200, [success |-> TRUE, cached |-> FALSE, data |-> historicalData.value])

\* lines 746-772: the request to Yahoo Finance settles
yahooSettled(s, i, historicalData) ==
    IF historicalData.threw
    THEN reply(s, i, 500, [error |-> "Internal server error", message |-> historicalData.error])
    ELSE reply([s EXCEPT !.cache = cleaned(set(@, s.hs[i].cacheKey,
                                               [timestamp |-> s.now,
                                                data |-> historicalData.value]))],
               i, 200, [success |-> TRUE, cached |-> FALSE, data |-> historicalData.value])

yahooSettles(s, i, outcome) ==
    yahooSettled(s, i, fetchYahooFinanceData(s.hs[i].req.query.ticker.str, outcome))

HistoryReceive(request) ==
    /\ fn = "history"
    /\ Serves(historyHandler(invoke(Server, request), Len(hs) + 1))
    /\ UNCHANGED <<fn, env, now, req, res, ea, sent, recVars, callVars>>

YahooSettles(i, outcome) ==
    /\ fn = "history"
    /\ hs[i].pc = "yahoo"
    /\ Serves(yahooSettles(settle(Server, i, outcome), i, outcome))
    /\ UNCHANGED <<fn, env, now, req, res, ea, sent, recVars, callVars>>

\* time passes
Tick(d) ==
    /\ now' = now + d
    /\ UNCHANGED <<fn, env, hs, calls, cache, req, res, ea, sent, recVars, callVars>>

\* a chart response with the given closes
Chart(closes) ==
    [result |-> [timestamp |-> [k \in 1..Len(closes) |-> 1700000000 + k], close |-> closes]]

YahooUpstream(series) ==
    {[kind |-> "ok", data |-> Chart(c)] : c \in series}
      \cup {[kind |-> "ok", data |-> [result |-> UNDEF]],
            [kind |-> "status", statusCode |-> 404], [kind |-> "network"]}

----------------------------------------------------------------------------
(* The history cache under load: requests arrive one after another, each   *)
(* for the first key of the cache or for a ticker not asked for before,    *)
(* and the cache lifetime may pass between them. The log of answered       *)
(* requests restarts with every arrival.                                   *)

MaxTickers == 22

\* the k-th ticker as clients send it
Ticker(k) == <<"t", LowerCase[k]>>

\* the number of the ticker a cache key stands for
TickerNumber(key) == CHOOSE k \in 1..Len(UpperCase) : UpperCase[k] = key[2]

\* the number of the next ticker not asked for before: the cache holds the
\* tickers in the order they were first asked for
NextTicker == IF cache = <<>> THEN 1 ELSE 1 + TickerNumber(cache[Len(cache)].key)

HistoryReceiveNext(request) ==
    /\ fn = "history"
    /\ \A i \in 1..Len(hs) : hs[i].pc = "done"
    /\ Serves(historyHandler(invoke([Server EXCEPT !.hs = <<>>, !.calls = <<>>], request), 1))
    /\ UNCHANGED <<fn, env, now, req, res, ea, sent, recVars, callVars>>

HistoryLoadInit ==
    /\ RecIdle
    /\ SentIdle
    /\ CallIdle
    /\ req = NULL
    /\ res = NULL
    /\ ea = eaIdle
    /\ env = [API_KEY |-> UNDEF]
    /\ fn = "history"
    /\ hs = <<>>
    /\ calls = <<>>
    /\ cache = <<>>
    /\ now = 0

HistoryLoadNext ==
    \/ /\ NextTicker <= MaxTickers
       /\ HistoryReceiveNext([method |-> "GET", query |-> [ticker |-> Str(Ticker(NextTicker))]])
    \/ /\ cache # <<>>
       /\ HistoryReceiveNext([method |-> "GET", query |-> [ticker |-> Str(firstKey(cache))]])
    \/ \E i \in 1..Len(hs) :
         \E o \in {[kind |-> "ok", data |-> Chart(<<Lit(1, 1)>>)], [kind |-> "network"]} :
           YahooSettles(i, o)
    \/ /\ now < 2 * HISTORY_CACHE_TTL
       /\ Tick(HISTORY_CACHE_TTL)

SpecHistoryLoad == HistoryLoadInit /\ [][HistoryLoadNext]_vars

----------------------------------------------------------------------------
(* A warm process of any one endpoint: up to MaxRequests requests, with    *)
(* the clock passing between and during them. Invocations of the raw       *)
(* earnings and the history handler overlap (each stands at one await at a *)
(* time); the handlers with a fan-out take their requests one after        *)
(* another. An answered earnings-analysis request is moved to the log hs   *)
(* when the handler returns.                                               *)

MaxRequests == 2

EarningsAnalysis == "earnings-analysis"

\* the cache lifetime of the hosted function (the stock endpoint has no cache)
TTL ==
    CASE fn = "economics"      -> ECONOMICS_CACHE_TTL
      [] fn = "earnings"       -> EARNINGS_CACHE_TTL
      [] fn = EarningsAnalysis -> CACHE_TTL
      [] OTHER                 -> HISTORY_CACHE_TTL

\* the instants the clock is looked at: a millisecond either side of one
\* cache lifetime after the start
Instants == {0, TTL - 1, TTL, TTL + 1}

AllAnswered == \A i \in 1..Len(hs) : hs[i].pc = "done"

\* the earnings-analysis handler has returned; the process takes the next
\* request
Return ==
    /\ fn = EarningsAnalysis
    /\ ea.pc = "done"
    /\ hs' = Append(hs, [req |-> req, pc |-> "done", res |-> res])
    /\ req' = NULL
    /\ res' = NULL
    /\ ea' = eaIdle
    /\ sent' = sentIdle
    /\ UNCHANGED <<fn, env, now, cache, calls, recVars, callVars>>

February == [year |-> 2025, month |-> 1]

\* GET requests with and without a ticker
ApiRequests == {[method |-> "GET", query |-> [ticker |-> t]] : t \in {UNDEF, Str(AAPL)}}

\* the requests that may arrive after n others: the last one of a run may
\* also be a POST
ArrivalsAfter(n) ==
    IF n + 1 = MaxRequests
    THEN ApiRequests \cup {[method |-> "POST", query |-> [ticker |-> Str(AAPL)]]}
    ELSE ApiRequests

\* the answers of the providers: data, or a failure
ApiEarningsUpstream(path) ==
    {[kind |-> "ok", data |-> Filing(path, r)] : r \in {1, 2}}
      \cup {[kind |-> "status", statusCode |-> 404]}

ApiYahooUpstream ==
    {[kind |-> "ok", data |-> Chart(<<c>>)] : c \in {Lit(1, 1), Lit(3, 2)}}
      \cup {[kind |-> "network"]}

ApiRateUpstream(source) ==
    IF source = "inflation"
    THEN {[kind |-> "ok", data |-> Arr(<<Obj([rate |-> Num(r)])>>)] : r \in {3, 5}}
    ELSE {[kind |-> "network"]}

ApiStockUpstream(k) ==
    IF k = 1
    THEN {[kind |-> "ok", data |-> Obj([price |-> Num(190)])], [kind |-> "network"]}
    ELSE {[kind |-> "network"]}

ApiInit ==
    /\ RecIdle
    /\ SentIdle
    /\ CallIdle
    /\ req = NULL
    /\ res = NULL
    /\ ea = eaIdle
    /\ env \in EAEnvs
    /\ fn \in {"stocks", "economics", "earnings", "history", EarningsAnalysis}
    /\ hs = <<>>
    /\ calls = <<>>
    /\ cache = <<>>
    /\ now = 0

\* the answer of a provider that is down
Unavailable == [kind |-> "status", statusCode |-> 503]

ApiNext ==
    \/ /\ Len(hs) < MaxRequests
       /\ \E r \in ArrivalsAfter(Len(hs)) : EarningsReceive(r, February)
    \/ \E i \in 1..Len(hs) :
         /\ fn = "earnings" /\ hs[i].pc = "first"
         /\ \E o \in ApiEarningsUpstream(pendingPath(i)) : EarningsFirstSettles(i, o)
    \/ \E i \in 1..Len(hs) :
         /\ fn = "earnings" /\ hs[i].pc = "fallback"
         /\ \E o \in ApiEarningsUpstream(pendingPath(i)) : EarningsFallbackSettles(i, o)
    \/ /\ Len(hs) < MaxRequests
       /\ \E r \in ArrivalsAfter(Len(hs)) : HistoryReceive(r)
    \/ \E i \in 1..Len(hs), o \in ApiYahooUpstream : YahooSettles(i, o)
    \/ /\ Len(hs) < MaxRequests
       /\ AllAnswered
       /\ \E r \in ArrivalsAfter(Len(hs)) : EconomicsReceive(r)
    \/ \E i \in 1..Len(hs), n \in {Indicators[k] : k \in 1..Len(Indicators)} :
         \E o \in ApiRateUpstream(n) : IndicatorSettles(i, n, o)
    \/ /\ Len(hs) < MaxRequests
       /\ AllAnswered
       /\ \E r \in ArrivalsAfter(Len(hs)) : StocksReceive(r)
    \/ \E i \in 1..Len(hs), k \in 1..Len(COMPANIES) :
         \E o \in ApiStockUpstream(k) : StockPriceSettles(i, k, o)
    \/ /\ Len(hs) < MaxRequests
       /\ fn = EarningsAnalysis
       /\ \E r \in ArrivalsAfter(Len(hs)) : Receive(r)
    \/ \E o \in {[kind |-> "network"], Unavailable} : TranscriptSettles(o)
    \/ \E o \in {[kind |-> "ok", data |-> [price |-> Num(190), ticker |-> Str(toUpperCase(AAPL))]],
                 [kind |-> "network"], Unavailable} : StockSettles(o)
    \/ \E o \in {[kind |-> "network"], Unavailable} : HistoricalSettles(o)
    \/ \E o \in {[kind |-> "ok", data |-> d] : d \in EAEconomics} \cup {Unavailable} :
         EconomicsSettles(o)
    \/ \E r \in {[ok |-> TRUE, json |-> [success |-> TRUE, data |-> [statistics |-> t]]] :
                    t \in EATrends} \cup {[ok |-> FALSE]} : HistoryFallbackSettles(r)
    \/ EconomicsFallbackSettles([ok |-> FALSE])
    \/ Return
    \/ \E t \in Instants : fn # "stocks" /\ t > now /\ Tick(t - now)

SpecApi == ApiInit /\ [][ApiNext]_vars

----------------------------------------------------------------------------
(* Waiting for the providers. One request to a cold process whose provider *)
(* may answer or stay silent. The economics fetcher arms a timer of 5 s    *)
(* that rejects its promise; the fetchers of the stock, raw earnings and   *)
(* history endpoints arm none. Timers fire; nothing obliges a provider to  *)
(* answer.                                                                 *)

\* req.setTimeout(5000, ...) of an indicator request still pending fires
IndicatorTimesOut ==
    \E i \in 1..Len(hs), n \in {Indicators[k] : k \in 1..Len(Indicators)} :
      IndicatorSettles(i, n, [kind |-> "timeout"])

WaitInit ==
    /\ RecIdle
    /\ SentIdle
    /\ CallIdle
    /\ req = NULL
    /\ res = NULL
    /\ ea = eaIdle
    /\ env \in EAEnvs
    /\ fn \in {"stocks", "economics", "earnings", "history"}
    /\ hs = <<>>
    /\ calls = <<>>
    /\ cache = <<>>
    /\ now = 0

WaitNext ==
    \/ hs = <<>> /\ \E r \in ApiRequests : EarningsReceive(r, February)
    \/ \E i \in 1..Len(hs) :
         /\ fn = "earnings" /\ hs[i].pc = "first"
         /\ \E o \in ApiEarningsUpstream(pendingPath(i)) : EarningsFirstSettles(i, o)
    \/ \E i \in 1..Len(hs) :
         /\ fn = "earnings" /\ hs[i].pc = "fallback"
         /\ \E o \in ApiEarningsUpstream(pendingPath(i)) : EarningsFallbackSettles(i, o)
    \/ hs = <<>> /\ \E r \in ApiRequests : HistoryReceive(r)
    \/ \E i \in 1..Len(hs), o \in ApiYahooUpstream : YahooSettles(i, o)
    \/ hs = <<>> /\ \E r \in ApiRequests : EconomicsReceive(r)
    \/ \E i \in 1..Len(hs), n \in {Indicators[k] : k \in 1..Len(Indicators)} :
         \E o \in ApiRateUpstream("inflation") : IndicatorSettles(i, n, o)
    \/ IndicatorTimesOut
    \/ hs = <<>> /\ \E r \in ApiRequests : StocksReceive(r)
    \/ \E i \in 1..Len(hs), k \in 1..Len(COMPANIES) :
         \E o \in ApiStockUpstream(1) : StockPriceSettles(i, k, o)

SpecWait == WaitInit /\ [][WaitNext]_vars /\ WF_vars(IndicatorTimesOut)

----------------------------------------------------------------------------
(* The sentiment step of the pipeline on long transcripts: one request to  *)
(* the earnings-analysis handler whose transcript holds one executive turn *)
(* of up to MaxSample sentences (more than the sampler takes), or no text, *)
(* or is absent. At most one sentiment request of a run fails.             *)

MaxSample == 21

\* a transcript record with one turn of the chief executive, of n sentences
Speech(n) == Transcript(Arr(<<Turn(Str(keyRoles[1]), TextOf(n))>>), UNDEF)

\* none, one, one below the cap, the cap, and more than the cap
SampleSizes == {0, 1, sentenceLimit - 1, sentenceLimit, MaxSample}

\* two sentences of one turn, the first with half a surrogate pair in it
Garbled ==
    Transcript(Arr(<<Turn(Str(keyRoles[1]),
                          <<HighSurrogate>> \o LongSentence(1) \o <<" ">> \o LongSentence(2))>>),
               UNDEF)

PipelineTranscripts ==
    {[kind |-> "ok", data |-> Speech(n)] : n \in SampleSizes}
      \cup {[kind |-> "ok", data |-> Garbled],
            [kind |-> "ok", data |-> NULL], [kind |-> "status", statusCode |-> 429]}

PipelineSentiments ==
    {o \in SentimentOutcomes({"POSITIVE"}, {Dec(80)}) :
        o.kind = "ok" \/ Len(sent.results) = sent.i}

PipelineInit ==
    /\ RecIdle
    /\ SentIdle
    /\ CallIdle
    /\ HsIdle
    /\ env = [API_KEY |-> Str(<<"k", "e", "y">>)]
    /\ req = NULL
    /\ res = NULL
    /\ ea = eaIdle
    /\ cache = <<>>
    /\ now = 0

PipelineNext ==
    \/ Receive([method |-> "GET", query |-> [ticker |-> Str(AAPL)]])
    \/ \E o \in PipelineTranscripts : TranscriptSettles(o)
    \/ StockSettles([kind |-> "status", statusCode |-> 429])
    \/ HistoricalSettles([kind |-> "ok", data |-> [trendPercent |-> Num(80)]])
    \/ EconomicsSettles([kind |-> "ok", data |-> [indicators |-> UNDEF]])
    \/ \E o \in PipelineSentiments : SentimentSettles(o)
    \/ SentimentDelayElapsed

SpecPipeline == PipelineInit /\ [][PipelineNext]_vars

----------------------------------------------------------------------------
(* splitIntoSentences applied to texts made of pieces around the minimum   *)
(* length, ending in each kind of boundary.                                *)

MaxPieces == 2

\* n times the letter
Run(n, letter) == [j \in 1..n |-> letter]

\* what a piece may end with: punctuation before whitespace, punctuation
\* alone, a bar, a comma before whitespace
PieceEndings ==
    {<<".", " ">>, <<"!", "\n">>, <<"?", " ", " ">>, <<".">>, <<"|">>, <<",", " ">>}

\* pieces whose first Len - (number of trailing whitespace) characters are
\* one short of, at, and one over the minimum length
Pieces ==
    {Run(n, "a") \o e : n \in (minSentenceLength - 2)..minSentenceLength, e \in PieceEndings}

RECURSIVE Concat(_)
Concat(parts) == IF parts = <<>> THEN <<>> ELSE Head(parts) \o Concat(Tail(parts))

SplitTexts == {Concat(ps) : ps \in UNION {[1..n -> Pieces] : n \in 0..MaxPieces}}

SplitInit ==
    /\ RecIdle
    /\ SentIdle
    /\ EAIdle
    /\ HsIdle
    /\ callArgs \in SplitTexts
    /\ callResult = NULL

CallSplitIntoSentences ==
    /\ callResult = NULL
    /\ callResult' = Returns(splitIntoSentences(callArgs))
    /\ UNCHANGED <<callArgs, recVars, sent, eaVars, hsVars>>

SplitNext == CallSplitIntoSentences

SpecSplit == SplitInit /\ [][SplitNext]_vars

----------------------------------------------------------------------------
(* The statistics on their own: every series of up to MaxPrices closing    *)
(* prices drawn from prices around one dollar, a hair apart, or from       *)
(* prices of a few cents.                                                  *)

\* 2^-15
Tiny == fdiv(fdiv(Lit(1, 1), 512), 64)

NearOne == {Lit(1, 1), fsub(Lit(1, 1), Tiny), fadd(Lit(1, 1), Tiny), Lit(101, 100), Lit(3, 2)}

Pennies == {Lit(45, 1000), Lit(5, 100), Lit(4, 100)}

MaxPrices == 3

PriceSeries == UNION {[1..n -> NearOne] \cup [1..n -> Pennies] : n \in 1..MaxPrices}

StatsInit ==
    /\ RecIdle
    /\ SentIdle
    /\ EAIdle
    /\ HsIdle
    /\ callArgs \in PriceSeries
    /\ callResult = NULL

CallStatistics ==
    /\ callResult = NULL
    /\ callResult' = statistics(callArgs)
    /\ UNCHANGED <<callArgs, recVars, sent, eaVars, hsVars>>

StatsNext == CallStatistics

SpecStats == StatsInit /\ [][StatsNext]_vars

----------------------------------------------------------------------------
(* Properties of generateRecommendation (checked under SpecRec).           *)

RecDone == recResult # NULL

Triple(r) == <<r.recommendation, r.confidence, r.riskLevel>>

\* the verdict the ordered thresholds give for a score
BandOf(score) ==
    IF fgt(score, Dec(40)) THEN <<"BUY", "High", "Moderate">>
    ELSE IF fgt(score, DZero) THEN <<"BUY", "Moderate", "Moderate">>
    ELSE IF fgt(score, fneg(Dec(40))) THEN <<"HOLD", "Moderate", "Moderate">>
    ELSE <<"SELL", "Moderate", "Elevated">>

\* the double 0.4*s + 0.3*p + 0.3*e, evaluated left to right
WeightedSum(f) ==
    fadd(fadd(fmulInt(f.sentiment, Dec(40)), fmulInt(f.priceTrend, Dec(30))),
         fmulInt(f.economic, Dec(30)))

AllFactors(f, k) == f.sentiment = k /\ f.priceTrend = k /\ f.economic = k

\* C3: the verdict is the one the ordered thresholds (> 0.4, > 0, > -0.4, else)
\* give for the returned score; it is a function of the factor triple; all +1
\* gives BUY/High, all 0 HOLD, all -1 SELL/Elevated; a score of exactly 0.4, 0
\* or -0.4 falls in the lower band.
C3_VerdictByThresholds ==
    RecDone =>
      /\ Triple(recResult) = BandOf(recResult.score)
      /\ Triple(recResult) = BandOf(WeightedSum(recResult.factors))
      /\ AllFactors(recResult.factors, 1) => Triple(recResult) = <<"BUY", "High", "Moderate">>
      /\ AllFactors(recResult.factors, 0) => recResult.recommendation = "HOLD"
      /\ AllFactors(recResult.factors, -1) => Triple(recResult) = <<"SELL", "Moderate", "Elevated">>
      /\ recResult.score = Dec(40) => Triple(recResult) = <<"BUY", "Moderate", "Moderate">>
      /\ recResult.score = DZero => Triple(recResult) = <<"HOLD", "Moderate", "Moderate">>
      /\ recResult.score = fneg(Dec(40)) => Triple(recResult) = <<"SELL", "Moderate", "Elevated">>

\* a call returned a score of exactly -0.4 (sentiment -1, the other two 0)
C3_Witness ==
    /\ RecDone
    /\ recResult.score = fneg(Dec(40))
    /\ recResult.recommendation = "SELL"
    /\ recResult.factors = [sentiment |-> -1, priceTrend |-> 0, economic |-> 0]

Abs(k) == IF k < 0 THEN -k ELSE k

\* |score - t/10| <= 2^-53, both sides scaled by 10 * 2^60
NearTenths(score, t) ==
    LET a == MagMulSmall(score.mag, 10)
        b == MagMulSmall(MagOne, Abs(t))
        d == IF MagCmp(a, b) >= 0 THEN MagSub(a, b) ELSE MagSub(b, a)
    IN  /\ MagCmp(d, <<0, 0, 1280>>) <= 0
        /\ (score # DZero => score.neg = (t < 0))

\* C4: every factor is -1, 0 or 1; the score is the double sum
\* 0.4*sentiment + 0.3*priceTrend + 0.3*economic (within 2^-53 of the exact
\* tenths); it lies in [-1, 1], is 1.0 only for all factors +1 and -1.0 only
\* for all factors -1.
C4_ScoreFormula ==
    RecDone =>
      LET f  == recResult.factors
          sc == recResult.score
      IN  /\ {f.sentiment, f.priceTrend, f.economic} \subseteq {-1, 0, 1}
          /\ sc = WeightedSum(f)
          /\ NearTenths(sc, 4 * f.sentiment + 3 * f.priceTrend + 3 * f.economic)
          /\ ~fgt(sc, Dec(100)) /\ ~flt(sc, fneg(Dec(100)))
          /\ (sc = Dec(100)) <=> AllFactors(f, 1)
          /\ (sc = fneg(Dec(100))) <=> AllFactors(f, -1)

\* a call returned the score 1.0
C4_Witness == RecDone /\ recResult.score = Dec(100) /\ AllFactors(recResult.factors, 1)

AboutLines(r, about) == SelectSeq(r.reasoning, LAMBDA ln : ln.about = about)

\* C5: the sentiment factor is +1 for POSITIVE with score > 0.5, otherwise -1
\* for NEGATIVE or score < 0.3, otherwise 0; an absent sentiment input gives
\* factor 0 and no sentiment line.
C5_SentimentFactor ==
    RecDone =>
      LET sd == recArgs.sentimentData
      IN  IF sd = NULL
          THEN recResult.factors.sentiment = 0 /\ AboutLines(recResult, "sentiment") = <<>>
          ELSE recResult.factors.sentiment =
                 (IF sd.overall.sentiment = "POSITIVE" /\ fgt(sd.overall.score, Dec(50)) THEN 1
                  ELSE IF sd.overall.sentiment = "NEGATIVE" \/ flt(sd.overall.score, Dec(30)) THEN -1
                  ELSE 0)

\* a POSITIVE aggregate with score exactly 0.5 was scored (factor 0)
C5_Witness ==
    /\ RecDone
    /\ recArgs.sentimentData # NULL
    /\ recArgs.sentimentData.overall = [sentiment |-> "POSITIVE", score |-> Dec(50)]
    /\ recResult.factors.sentiment = 0

\* the value of an indicator that is present and available, in a set
Effective(ind) == IF Truthy(ind) /\ ind.available THEN {ind.value.num} ELSE {}

SubScore(economicData) ==
    LET inf == Effective(economicData.indicators.inflation)
        une == Effective(economicData.indicators.unemployment)
    IN  (IF \E v \in inf : v < 30 THEN 1 ELSE IF \E v \in inf : v > 50 THEN -1 ELSE 0)
          + (IF \E v \in une : v < 50 THEN 1 ELSE IF \E v \in une : v > 60 THEN -1 ELSE 0)

\* economicData without the indicators the factor does not read and without
\* the values of unavailable indicators
Canonical(economicData) ==
    LET strip(ind) == IF Truthy(ind) /\ ~ind.available THEN Indicator(NULL, FALSE) ELSE ind
    IN  [indicators |-> [inflation    |-> strip(economicData.indicators.inflation),
                         unemployment |-> strip(economicData.indicators.unemployment),
                         mortgageRate |-> UNDEF]]

\* C6: the economic factor is the sign of the sub-score of the available
\* inflation (< 3: +0.5, > 5: -0.5) and unemployment (< 5: +0.5, > 6: -0.5)
\* indicators, 0 without an indicator set; other indicators and the values of
\* unavailable indicators change neither the factor nor the recommendation.
C6_EconomicFactor ==
    RecDone =>
      LET ed == recArgs.economicData
      IN  IF ed = NULL \/ ed.indicators = UNDEF
          THEN recResult.factors.economic = 0
          ELSE /\ recResult.factors.economic =
                    (IF SubScore(ed) > 0 THEN 1 ELSE IF SubScore(ed) < 0 THEN -1 ELSE 0)
               /\ LET other == generateRecommendation(recArgs.stockData, recArgs.sentimentData,
                                                      Canonical(ed), recArgs.historicalTrend)
                  IN  /\ other.factors = recResult.factors
                      /\ Triple(other) = Triple(recResult)

\* scored with an unavailable inflation entry that carries 6%, an available
\* unemployment of 4% and a third indicator: the factor is +1
C6_Witness ==
    /\ RecDone
    /\ recArgs.economicData # NULL
    /\ recArgs.economicData.indicators # UNDEF
    /\ recArgs.economicData.indicators.inflation = Indicator(Num(60), FALSE)
    /\ recArgs.economicData.indicators.unemployment = Indicator(Num(40), TRUE)
    /\ recArgs.economicData.indicators.mortgageRate # UNDEF
    /\ recResult.factors.economic = 1

\* C7: the price-trend factor is +1 for trendPercent > 5, -1 for < -5 and 0
\* otherwise (5 and -5 included); 0 without a trend or without trendPercent.
C7_PriceTrendFactor ==
    RecDone =>
      LET ht == recArgs.historicalTrend
      IN  IF ht = NULL \/ ht.trendPercent = UNDEF
          THEN recResult.factors.priceTrend = 0
          ELSE recResult.factors.priceTrend =
                 (IF ht.trendPercent.num > 50 THEN 1
                  ELSE IF ht.trendPercent.num < -50 THEN -1 ELSE 0)

\* a trend of exactly 5% was scored (factor 0)
C7_Witness ==
    /\ RecDone
    /\ recArgs.historicalTrend # NULL
    /\ recArgs.historicalTrend.trendPercent = Num(50)
    /\ recResult.factors.priceTrend = 0

Abouts(r) == [i \in 1..Len(r.reasoning) |-> r.reasoning[i].about]

OrderOf(s, p, e) ==
    (IF s THEN <<"sentiment">> ELSE <<>>) \o (IF p THEN <<"priceTrend">> ELSE <<>>)
      \o (IF e THEN <<"economic">> ELSE <<>>)

\* C8 as stated: one reasoning line per input that is present (not null),
\* in the order sentiment, price trend, economic.
C8_LinePerPresentInput ==
    RecDone =>
      Abouts(recResult) = OrderOf(recArgs.sentimentData # NULL,
                                  recArgs.historicalTrend # NULL,
                                  recArgs.economicData # NULL)

\* C8 amended: one reasoning line per input that is present and carries the
\* field its factor reads (sentimentData.overall, historicalTrend.trendPercent,
\* economicData.indicators), none for any other input, in the order sentiment,
\* price trend, economic.
C8_LinePerScoredInput ==
    RecDone =>
      Abouts(recResult) =
        OrderOf(recArgs.sentimentData # NULL /\ recArgs.sentimentData.overall # UNDEF,
                recArgs.historicalTrend # NULL /\ recArgs.historicalTrend.trendPercent # UNDEF,
                recArgs.economicData # NULL /\ recArgs.economicData.indicators # UNDEF)

\* all three inputs were scored: three lines
C8_Witness ==
    /\ RecDone
    /\ Len(recResult.reasoning) = 3
    /\ recArgs.sentimentData # NULL
    /\ recArgs.historicalTrend # NULL
    /\ recArgs.economicData # NULL

----------------------------------------------------------------------------
(* Properties of analyzeSentimentDetailed (checked under SpecSent).        *)

SentReturned == sent.pc = "done" /\ sent.ret # NULL

CountLabel(rs, label) == Cardinality({k \in 1..Len(rs) : rs[k].sentiment = label})

\* C9: every non-null aggregate has
\* breakdown.positive + breakdown.negative + breakdown.neutral = breakdown.total,
\* whatever labels the sentiment endpoint answered with.
C9_BreakdownSumsToTotal ==
    SentReturned =>
      sent.ret.breakdown.positive + sent.ret.breakdown.negative + sent.ret.breakdown.neutral
        = sent.ret.breakdown.total

RECURSIVE ExactSum(_)
ExactSum(rs) == IF rs = <<>> THEN MagZero ELSE MagAdd(Head(rs).score.mag, ExactSum(Tail(rs)))

\* |n * avg - (exact sum of the scores)| <= n * 2^-51, in units of 2^-60
NearMean(avg, rs) ==
    LET a == MagMulSmall(avg.mag, Len(rs))
        b == ExactSum(rs)
        d == IF MagCmp(a, b) >= 0 THEN MagSub(a, b) ELSE MagSub(b, a)
    IN  ~avg.neg /\ MagCmp(d, <<0, 0, 512 * Len(rs)>>) <= 0

\* C10: overall.score is the mean of the sample scores (the double sum
\* divided by the count, within 2^-51 of the exact mean); overall.sentiment is
\* POSITIVE iff positive-count > negative-count and score > 0.55, NEGATIVE iff
\* negative-count > positive-count and score < 0.45, NEUTRAL otherwise; ties
\* in the counts and scores in [0.45, 0.55] give NEUTRAL.
C10_OverallSentiment ==
    SentReturned =>
      LET pos   == CountLabel(sent.results, "POSITIVE")
          neg   == CountLabel(sent.results, "NEGATIVE")
          score == sent.ret.overall.score
          label == sent.ret.overall.sentiment
      IN  /\ score = fdiv(SumScores(sent.results, DZero), Len(sent.results))
          /\ NearMean(score, sent.results)
          /\ label \in {"POSITIVE", "NEGATIVE", "NEUTRAL"}
          /\ (label = "POSITIVE") <=> (pos > neg /\ fgt(score, Dec(55)))
          /\ (label = "NEGATIVE") <=> (neg > pos /\ flt(score, Dec(45)))
          /\ pos = neg => label = "NEUTRAL"
          /\ (~flt(score, Dec(45)) /\ ~fgt(score, Dec(55))) => label = "NEUTRAL"

\* more POSITIVE than NEGATIVE samples and a mean of exactly 0.55: NEUTRAL
C10_Witness ==
    /\ SentReturned
    /\ Len(sent.results) = 2
    /\ CountLabel(sent.results, "POSITIVE") > CountLabel(sent.results, "NEGATIVE")
    /\ sent.ret.overall.score = Dec(55)
    /\ sent.ret.overall.sentiment = "NEUTRAL"

----------------------------------------------------------------------------
(* Properties of the earnings-analysis handler (checked under SpecEA).     *)

\* the handler got past the cache check, started the fan-out and has answered
AnsweredAfterFanout == Issued /\ ea.pc = "done"

\* C1: for a GET with a ticker and an API key on a cache miss, however each
\* of the four upstream fetches ends, the answer is HTTP 200 with a
\* recommendation; no fetch failure becomes an HTTP 500.
C1_FetchFailureStillAnswers200 ==
    AnsweredAfterFanout =>
        /\ res.status = 200
        /\ res.body.data.recommendation.recommendation \in {"BUY", "HOLD", "SELL"}

\* C2: the fallback history endpoint is called only after the direct fetch
\* failed; the trend given to the recommendation and returned is absent only
\* when both the direct fetch and the fallback failed; when the direct fetch
\* succeeded its trend is the one returned and scored.
C2_TrendFromDirectOrFallback ==
    /\ (ea.pc = "historyFallback" \/ ea.historyResponse # UNDEF)
          => ~ea.historicalDataResult.success
    /\ (AnsweredAfterFanout /\ res.status = 200) =>
          LET direct == ea.historicalDataResult
              data   == res.body.data
          IN  /\ data.historicalTrend = NULL
                    => (~direct.success /\ ownData(ea.historyResponse) = UNDEF)
              /\ direct.success
                    => /\ data.historicalTrend = direct.data
                       /\ data.recommendation.factors.priceTrend
                              = recPriceTrend(direct.data).factor

----------------------------------------------------------------------------
(* Properties of extractKeyStatements (checked under SpecExtract).         *)

ExDone == callResult # NULL

\* the turns of a transcript record, parsed if they are JSON text; <<>> when
\* there is no array of turns
TurnsOf(transcript) ==
    LET raw == transcript.transcript_split
        v   == IF IsJStr(raw) THEN raw.jstr ELSE raw
    IN  IF IsArr(v) THEN v.arr ELSE <<>>

HasRawText(transcript) ==
    IsStr(transcript.transcript) /\ transcript.transcript.str # <<>>

HasTurnText(transcript) ==
    \E k \in 1..Len(TurnsOf(transcript)) :
        LET item == TurnsOf(transcript)[k]
        IN  item # NULL /\ IsStr(item.text) /\ item.text.str # <<>>

HasExecutiveTurn(transcript) ==
    \E k \in 1..Len(TurnsOf(transcript)) :
        LET item == TurnsOf(transcript)[k]
        IN  /\ item # NULL
            /\ IsStr(item.role)
            /\ \E r \in 1..Len(keyRoles) : Includes(item.role.str, keyRoles[r])

\* C11: extractKeyStatements never raises, whatever the shape of the
\* transcript record; without executive turns and without raw text it returns
\* the empty string; and it returns the empty string only when the record
\* holds no transcript text at all.
C11_ExtractNeverRaises ==
    ExDone =>
        /\ ~callResult.threw
        /\ (TruthyVal(callArgs) /\ ~HasExecutiveTurn(callArgs) /\ ~HasRawText(callArgs))
              => callResult.value = <<>>
        /\ (TruthyVal(callArgs) /\ callResult.value = <<>>)
              => (~HasRawText(callArgs) /\ ~HasTurnText(callArgs))

----------------------------------------------------------------------------
(* Properties of the raw earnings endpoint (checked under SpecEarnings).   *)

\* the upstream requests invocation i made, in order
callsBy(i) == SelectSeq(calls, LAMBDA c : c.by = i)

\* an attempt that yielded no data: another status than 200, a body that is
\* not JSON, a transport failure, or a body that holds nothing
NoData(c) == c.outcome.kind # "ok" \/ ~TruthyVal(c.outcome.data)

\* a GET that passed the checks and missed the cache has been answered
EarningsFetched(i) ==
    /\ hs[i].pc = "done"
    /\ hs[i].req.method = "GET"
    /\ callsBy(i) # <<>>

\* C17: on a miss the raw earnings handler asks for the most recent filed
\* quarter; whenever that attempt yields no data it makes exactly one further
\* attempt, for the preceding quarter (Q1 of Y falls back to Q4 of Y-1); it
\* answers 404 only if both attempts yield no data and otherwise 200 with the
\* data of the first attempt that succeeded; a missing ticker gives 400
\* before any attempt.
C17_OneFallbackThen404 ==
    \A i \in 1..Len(hs) :
      /\ EarningsFetched(i) =>
            LET cs == callsBy(i)
                first == cs[1]
            IN  /\ first.path = earningsPath(hs[i].tickerUpper, hs[i].period)
                /\ hs[i].period.quarter \in 1..4
                /\ IF NoData(first)
                   THEN /\ Len(cs) = 2
                        /\ cs[2].path.ticker = first.path.ticker
                        /\ cs[2].path.quarter = (IF first.path.quarter = 1 THEN 4 ELSE first.path.quarter - 1)
                        /\ cs[2].path.year = (IF first.path.quarter = 1 THEN first.path.year - 1 ELSE first.path.year)
                        /\ IF NoData(cs[2])
                           THEN hs[i].res.status = 404
                           ELSE hs[i].res.status = 200 /\ hs[i].res.body.data = cs[2].outcome.data
                   ELSE /\ Len(cs) = 1
                        /\ hs[i].res.status = 200
                        /\ hs[i].res.body.data = first.outcome.data
      /\ (/\ hs[i].pc = "done"
          /\ hs[i].req.method = "GET"
          /\ TruthyVal(env.API_KEY)
          /\ ~TruthyVal(hs[i].req.query.ticker)) =>
            hs[i].res.status = 400 /\ callsBy(i) = <<>>

----------------------------------------------------------------------------
(* Properties of the economics endpoint (checked under SpecFanout).     *)

\* the names under which a response may carry the rate of a source
RateNames(source) ==
    CASE source = "inflation"    -> {"yearly_rate_pct", "rate", "inflation_rate", "value"}
      [] source = "interestRate" -> {"rate_pct", "rate", "value", "central_bank_rate"}
      [] source = "mortgageRate" -> {"rate_30_year", "rate", "value"}
      [] source = "unemployment" -> {"overall_unemployment_rate", "unemployment_rate", "rate", "value"}

\* the record of a response body that holds the rate
RateRecord(body) ==
    IF IsArr(body) THEN (IF Len(body.arr) > 0 THEN body.arr[1] ELSE NULL) ELSE body

\* the numeric rates the upstream request of a source returned
NumericRates(source, outcome) ==
    IF outcome.kind # "ok" THEN {}
    ELSE {v \in {prop(RateRecord(outcome.data), n) : n \in RateNames(source)} : IsNum(v)}

\* invocation i has been answered with freshly fetched indicators
EconomicsFresh(i) ==
    /\ fn = "economics"
    /\ hs[i].pc = "done"
    /\ hs[i].res.status = 200
    /\ hs[i].res.body # UNDEF
    /\ ~hs[i].res.body.cached

IndicatorNames == {Indicators[k] : k \in 1..Len(Indicators)}

\* C18: a fresh economics response holds all four indicator entries and is a
\* 200 with success:true also when some fetches fail; an entry is
\* available:true with a numeric value exactly when its upstream request
\* returned a numeric rate (any number, 0 included) and otherwise
\* available:false with value null; availableCount counts the available
\* entries and totalIndicators is 4.
C18_AvailableIffNumericRate ==
    \A i \in 1..Len(hs) :
      /\ (/\ fn = "economics"
          /\ hs[i].pc = "done"
          /\ hs[i].req.method = "GET"
          /\ TruthyVal(env.API_KEY)) =>
            EconomicsFresh(i) /\ hs[i].res.body.success
      /\ EconomicsFresh(i) =>
            LET data == hs[i].res.body.data
            IN  /\ DOMAIN data.indicators = IndicatorNames
                /\ data.totalIndicators = 4
                /\ data.availableCount =
                     Cardinality({n \in IndicatorNames : data.indicators[n].available})
                /\ \A n \in IndicatorNames :
                     LET rates == NumericRates(n, calls[callOf(calls, i, n)].outcome)
                         entry == data.indicators[n]
                     IN  IF rates # {}
                         THEN entry.available /\ entry.value \in rates
                         ELSE ~entry.available /\ entry.value = NULL

\* a source of a fan-out failed: its request ended without a body
SourceFailed(outcome) == outcome.kind # "ok" \/ ~Truthy(outcome.data)

\* invocation i fanned out and has answered
FanoutAnswered(i) == hs[i].pc = "done" /\ callsBy(i) # <<>>

\* every source of invocation i failed
AllFailed(i) == \A k \in 1..Len(callsBy(i)) : SourceFailed(callsBy(i)[k].outcome)

\* the answer of invocation i holds one entry per source, the failed
\* sources marked unsuccessful with a null value
EntryPerSource(i) ==
    LET cs == callsBy(i)
        body == hs[i].res.body
    IN  /\ fn = "stocks" =>
              /\ Len(body.data) = Len(COMPANIES)
              /\ \A k \in 1..Len(COMPANIES) :
                   /\ body.data[k].ticker = COMPANIES[k].ticker
                   /\ SourceFailed(cs[k].outcome) =>
                        ~body.data[k].success /\ body.data[k].price = NULL
        /\ fn = "economics" =>
              /\ DOMAIN body.data.indicators = IndicatorNames
              /\ \A k \in 1..Len(cs) :
                   SourceFailed(cs[k].outcome) =>
                     /\ ~body.data.indicators[cs[k].path].available
                     /\ body.data.indicators[cs[k].path].value = NULL

\* C19 as stated: for the stock-price list (five companies) and the
\* indicator aggregation (four indicators), if every source fails the answer
\* is 503 with the per-source results; if at least one succeeds it is 200
\* with one entry per source in the fixed order, the failed ones marked
\* unsuccessful with a null value.
C19_AllFailed503 ==
    \A i \in 1..Len(hs) :
      FanoutAnswered(i) =>
        /\ hs[i].res.status = (IF AllFailed(i) THEN 503 ELSE 200)
        /\ EntryPerSource(i)

\* C19 as amended: the 503 on total failure is the stock-price list's alone;
\* the indicator aggregation answers 200 with its four entries whatever
\* failed, all of them unavailable with a null value when every source
\* failed.
C19_FanoutIsolation ==
    \A i \in 1..Len(hs) :
      FanoutAnswered(i) =>
        /\ hs[i].res.status = (IF fn = "stocks" /\ AllFailed(i) THEN 503 ELSE 200)
        /\ EntryPerSource(i)
        /\ (fn = "economics" /\ AllFailed(i)) => hs[i].res.body.data.availableCount = 0

\* every source of an answered fan-out failed, on either endpoint
C19_EverySourceFailed ==
    \E i \in 1..Len(hs) : FanoutAnswered(i) /\ AllFailed(i) /\ hs[i].res.status \in {200, 503}

----------------------------------------------------------------------------
(* Properties of the history statistics (checked under SpecStats).         *)

StatsDone == callResult # NULL

\* C20: for every non-empty series of valid prices the reported statistics
\* (high, low, average and trendPercent rounded to two decimals, and
\* trendDirection) satisfy low <= average <= high, and trendDirection is
\* 'up' exactly when the reported trendPercent is >= 0, also when the raw
\* change is a tiny negative or positive value that rounds to zero.
C20_StatisticsConsistent ==
    StatsDone =>
        /\ fge(callResult.average, callResult.low)
        /\ fge(callResult.high, callResult.average)
        /\ (callResult.trendDirection = "up") <=> fge(callResult.trendPercent, DZero)

----------------------------------------------------------------------------
(* Properties of the history cache (checked under SpecHistoryLoad).        *)

Keys(map) == {map[k].key : k \in 1..Len(map)}

\* the entries of the cache that the step removes
Evicted == {k \in 1..Len(cache) : cache[k].key \notin Keys(cache')}

\* the step answers a request from the cache
AnswersFromCache ==
    \E i \in 1..Len(hs') :
      /\ hs'[i].pc = "done"
      /\ (i > Len(hs) \/ hs[i].pc # "done" \/ hs' # hs)
      /\ hs'[i].res.status = 200
      /\ hs'[i].res.body # UNDEF
      /\ hs'[i].res.body.cached

\* C14: the history cache holds at most 20 entries after every request; a
\* write that makes it exceed 20 evicts exactly one entry, the
\* oldest-inserted one: no entry that remains has an older timestamp than
\* the evicted one, also after an expired key was refreshed in place; the
\* entry just written is never the one evicted; and a cache hit never
\* changes the cache.
C14_EvictsOldest ==
    [][/\ Len(cache') <= maxCacheSize
       /\ Cardinality(Evicted) <= 1
       /\ Evicted # {} => Len(cache) = maxCacheSize /\ Keys(cache') \ Keys(cache) # {}
       /\ \A k \in Evicted : \A j \in 1..Len(cache') :
            cache'[j].value.timestamp >= cache[k].value.timestamp
       /\ \A k \in 1..Len(cache) :
            cache[k].key \in Keys(cache') =>
              \/ get(cache', cache[k].key) = cache[k].value
              \/ get(cache', cache[k].key).timestamp = now
       /\ AnswersFromCache => cache' = cache]_vars

----------------------------------------------------------------------------
(* Properties of the caches over time (checked under SpecApi).             *)

\* the key a request is cached under
KeyOf(request) ==
    CASE fn = "economics"      -> "economic_indicators"
      [] fn = EarningsAnalysis -> cacheKeyOf(request.query.ticker.str)
      [] OTHER                 -> toUpperCase(request.query.ticker.str)

Entry(map, key) == IF fn = EarningsAnalysis THEN mapGet(map, key) ELSE get(map, key)

StoredKeys(map) == IF fn = EarningsAnalysis THEN DOMAIN map ELSE Keys(map)

\* the request passes the handler's checks and comes to the cache read
ReachesCache(request) ==
    /\ fn # "stocks"
    /\ request.method = "GET"
    /\ fn = "history" \/ TruthyVal(env.API_KEY)
    /\ fn = "economics" \/ TruthyVal(request.query.ticker)

\* the request that arrives in the step, or NULL
Arriving ==
    IF fn = EarningsAnalysis THEN (IF req = NULL THEN req' ELSE NULL)
    ELSE IF Len(hs') > Len(hs) THEN hs'[Len(hs')].req
    ELSE NULL

\* the response the arriving request gets in the step of its arrival, or NULL
ArrivalResponse == IF fn = EarningsAnalysis THEN res' ELSE hs'[Len(hs')].res

\* the arriving request is left waiting for upstream requests of its own
ArrivalFetches ==
    IF fn = EarningsAnalysis THEN ea'.pc = "fanout"
    ELSE /\ hs'[Len(hs')].pc # "done"
         /\ \E k \in (Len(calls) + 1)..Len(calls') : calls'[k].by = Len(hs')

\* the requests answered in the step
AnsweredNow ==
    IF fn = EarningsAnalysis
    THEN IF res = NULL /\ res' # NULL THEN {[i |-> 0, req |-> req', res |-> res']} ELSE {}
    ELSE {[i |-> i, req |-> hs'[i].req, res |-> hs'[i].res] :
            i \in {j \in 1..Len(hs') : hs'[j].pc = "done" /\ (j > Len(hs) \/ hs[j].pc # "done")}}

\* the entry of key k is replaced in the step by what a request that
\* fetched is answered with
Overwritten(k) ==
    \E a \in AnsweredNow :
      /\ a.res.status = 200
      /\ ~a.res.body.cached
      /\ KeyOf(a.req) = k
      /\ Entry(cache', k) = [timestamp |-> now, data |-> a.res.body.data]

\* a stored entry counts as fresh at the given age
FreshAt(age, inclusive) == IF inclusive THEN age <= TTL ELSE age < TTL

\* the read rule of the caches, with the entry of age TTL fresh or not
CacheReadRule(inclusive) ==
    /\ (Arriving # NULL /\ ReachesCache(Arriving)) =>
         IF /\ Entry(cache, KeyOf(Arriving)) # UNDEF
            /\ FreshAt(now - Entry(cache, KeyOf(Arriving)).timestamp, inclusive)
         THEN /\ ArrivalResponse # NULL
              /\ ArrivalResponse.status = 200
              /\ ArrivalResponse.body.cached
              /\ ArrivalResponse.body.data = Entry(cache, KeyOf(Arriving)).data
              /\ ~ArrivalFetches
              /\ calls' = calls
              /\ cache' = cache
         ELSE /\ ArrivalResponse = NULL
              /\ ArrivalFetches
              /\ cache' = cache
    /\ \A k \in StoredKeys(cache) :
         /\ k \in StoredKeys(cache')
         /\ Entry(cache', k) # Entry(cache, k) => Overwritten(k)

\* C12 as stated: a GET for a key whose entry is not older than the TTL
\* (age <= TTL) is answered from the cache without an upstream call, an
\* older entry is a miss, and nothing but the overwrite removes an entry.
C12_FreshUpToTTL == [][CacheReadRule(TRUE)]_vars

\* C12 amended: a GET for a key whose entry is younger than the TTL
\* (age < TTL) is answered from the cache with cached:true and the stored
\* data, without an upstream call and without a change of the cache; with
\* an entry of age TTL or more, or none, the request fetches upstream; an
\* entry is never removed, and changes only when a request that fetched is
\* answered 200 and stores what it answers with the time of the write.
C12_FreshBelowTTL == [][CacheReadRule(FALSE)]_vars

\* a request answered from an entry one millisecond short of its lifetime
C12_HitAtLastInstant ==
    /\ fn \in {"economics", "earnings", "history"}
    /\ \E i \in 1..Len(hs) :
         /\ hs[i].pc = "done"
         /\ hs[i].res.status = 200
         /\ hs[i].res.body.cached
         /\ hs[i].at - Entry(cache, KeyOf(hs[i].req)).timestamp = TTL - 1

\* the upstream requests made on behalf of invocation i by the end of the step
callsAfter(i) == {k \in 1..Len(calls') : calls'[k].by = i}

\* the answered request went upstream (the earnings-analysis handler answers
\* in the step of the arrival unless it fans out)
Fetched(a) == IF fn = EarningsAnalysis THEN req # NULL ELSE callsAfter(a.i) # {}

\* the number of upstream requests of one fetch cycle
FetchCycle ==
    CASE fn = "economics" -> {4}
      [] fn = "earnings"  -> {1, 2}
      [] OTHER            -> {1}

----------------------------------------------------------------------------
(* Properties of the request checks.                                       *)

\* C15 (checked under SpecEarnings): an OPTIONS request is answered 200 with
\* no body, a request of any method other than GET and OPTIONS is answered
\* 405, and neither makes an upstream call or touches the cache.
C15_MethodChecked ==
    \A i \in 1..Len(hs) :
      hs[i].req.method # "GET" =>
        /\ hs[i].pc = "done"
        /\ hs[i].res = IF hs[i].req.method = "OPTIONS"
                       THEN [status |-> 200, body |-> UNDEF]
                       ELSE [status |-> 405, body |-> hs[i].res.body]
        /\ callsBy(i) = <<>>
        /\ cache = <<>>

\* the configuration-error payloads of the handlers
ConfigurationErrors == {"Configuration error", "API_KEY not configured"}

\* the arriving request is answered at once with the configuration error,
\* before any upstream request and without a change of the cache
RefusedUnconfigured ==
    /\ ArrivalResponse # NULL
    /\ ArrivalResponse.status = 500
    /\ ArrivalResponse.body.error \in ConfigurationErrors
    /\ ~ArrivalFetches
    /\ calls' = calls
    /\ cache' = cache

\* a GET arrives at a process without API_KEY
ArrivesUnconfigured ==
    /\ Arriving # NULL
    /\ Arriving.method = "GET"
    /\ ~TruthyVal(env.API_KEY)

\* C16 as stated: on every endpoint a GET handled without API_KEY ends with
\* HTTP 500 and a configuration-error payload whatever the query, with no
\* upstream call and no cache access before it.
C16_Always500 == [][ArrivesUnconfigured => RefusedUnconfigured]_vars

\* C16 amended: without API_KEY a GET is refused with HTTP 500 and a
\* configuration-error payload, before any upstream call or cache write,
\* by the stocks, economics and raw earnings handlers whatever the query,
\* and by the earnings-analysis handler when the ticker is present (a
\* missing ticker is answered 400 first); the history handler does not use
\* the credential: it answers 400 without a ticker and otherwise serves the
\* request from its cache or from upstream.
C16_RefusedWhereKeyIsUsed ==
    [][ArrivesUnconfigured =>
         CASE fn = "history" ->
                IF ~TruthyVal(Arriving.query.ticker)
                THEN ArrivalResponse.status = 400 /\ calls' = calls /\ cache' = cache
                ELSE \/ ArrivalResponse = NULL /\ ArrivalFetches
                     \/ ArrivalResponse.status = 200 /\ ArrivalResponse.body.cached
           [] fn = EarningsAnalysis /\ ~TruthyVal(Arriving.query.ticker) ->
                ArrivalResponse.status = 400 /\ ~ArrivalFetches /\ cache' = cache
           [] OTHER -> RefusedUnconfigured]_vars

\* a request without a ticker refused for the missing credential
C16_RefusedBeforeTicker ==
    /\ fn = "earnings"
    /\ ~TruthyVal(env.API_KEY)
    /\ \E i \in 1..Len(hs) :
         /\ hs[i].req.method = "GET"
         /\ ~TruthyVal(hs[i].req.query.ticker)
         /\ hs[i].res = [status |-> 500, body |-> [error |-> "API_KEY not configured"]]
         /\ callsBy(i) = <<>>

----------------------------------------------------------------------------
(* Properties of the waits (checked under SpecWait).                       *)

Suspended == \E i \in 1..Len(hs) : hs[i].pc # "done"

\* C21: every upstream call settles even if the provider never answers (a
\* call past its wait bound is aborted as a timeout), so a handler that
\* waits for upstream eventually sends its response.
C21_EveryRequestAnswered == Suspended ~> ~Suspended

----------------------------------------------------------------------------
(* Properties of one earnings-analysis run over a long transcript (checked *)
(* under SpecPipeline).                                                    *)

\* the text the run has to sample: none while the transcript is not there
KeyText ==
    IF ea.earningsTranscript = PENDING \/ ~TruthyVal(ea.earningsTranscript) THEN <<>>
    ELSE extractKeyStatements(ea.earningsTranscript).value

Qualifying == splitIntoSentences(KeyText)

\* the number of sentences the loop has come to so far
Submitted == IF sent.pc = "idle" \/ sent.sentences = <<>> THEN 0 ELSE sent.i + 1

\* the number of sentiment requests issued so far
Requested ==
    Cardinality({k \in 1..Submitted : encodable(textToAnalyze(sent.sentences[k]))})

\* what has been submitted is a prefix of the first 20 qualifying sentences
SampleOfKeyText ==
    /\ sent.pc # "idle" =>
         /\ KeyText # <<>>
         /\ sent.sentences =
              SubSeq(Qualifying, 1, IF Len(Qualifying) > 20 THEN 20 ELSE Len(Qualifying))
         /\ sent.i < Len(sent.sentences) \/ (sent.sentences = <<>> /\ sent.i = 0)
         /\ sent.pc = "delay" => sent.i + 1 < Len(sent.sentences)
         /\ sent.pc = "done" => Requested = Len(sent.sentences)
    /\ KeyText = <<>> => sent.pc = "idle"
    /\ (ea.pc = "done" /\ res.status = 200) => sent.pc \in {"idle", "done"}

\* one request at a time: the settled request is followed by the delay
\* unless it was the last, the delay by the request for the next sentence
SampleStep ==
    /\ (sent.pc = "idle" /\ sent' # sent) =>
         sent'.i = 0 /\ sent'.pc = IF sent'.sentences = <<>> THEN "done" ELSE "call"
    /\ (sent.pc = "call" /\ sent' # sent) =>
         /\ sent'.sentences = sent.sentences
         /\ sent'.i = sent.i
         /\ sent'.pc = IF sent.i + 1 < Len(sent.sentences) THEN "delay" ELSE "done"
    /\ (sent.pc = "delay" /\ sent' # sent) =>
         /\ sent'.sentences = sent.sentences
         /\ sent'.i = sent.i + 1
         /\ sent'.pc = "call"
    /\ sent.pc = "done" => sent' = sent

\* C22: in one earnings-analysis run the sentences submitted for sentiment
\* are the first min(20, number of qualifying sentences) of the key text,
\* each once and in text order; a request is issued only when the one before
\* has settled and the delay has elapsed, the delay follows every request
\* but the last, and nothing is submitted when the transcript is absent or
\* the extraction yields no text.
C22_SampledInOrder == []SampleOfKeyText /\ [][SampleStep]_vars

----------------------------------------------------------------------------
(* Properties of the sampler inside the handler (checked under SpecEA).    *)

\* the sampler has returned null to the handler, which has responded
NullSample == ea.pc = "done" /\ sent.pc = "done" /\ sent.ret = NULL

SamplerReturn ==
    /\ sent.pc = "done" =>
         /\ sent.ret = NULL <=> sent.results = <<>>
         /\ sent.ret # NULL => sent.ret.breakdown.total = Len(sent.results)
    /\ NullSample =>
         /\ res.status = 200
         /\ res.body.data.sentimentAnalysis = NULL
         /\ res.body.data.recommendation.factors.sentiment = 0

\* a settled request adds its result or nothing, and the loop goes on to
\* the next sentence either way
SamplerStep ==
    (sent.pc = "call" /\ sent' # sent) =>
      /\ \/ sent'.results = sent.results
         \/ /\ Len(sent'.results) = Len(sent.results) + 1
            /\ SubSeq(sent'.results, 1, Len(sent.results)) = sent.results
            /\ sent'.results[Len(sent'.results)].sentence = sent.sentences[sent.i + 1]
      /\ sent'.pc = IF sent.i + 1 < Len(sent.sentences) THEN "delay" ELSE "done"

\* C23: a failed per-sentence call is dropped without aborting the batch:
\* the remaining sentences are still submitted, breakdown.total is the
\* number of results collected, the sampler returns null exactly when none
\* was collected, and after a null return the handler answers 200 with
\* sentimentAnalysis null and sentiment factor 0.
C23_FailuresDropped == []SamplerReturn /\ [][SamplerStep]_vars

\* C25: when transcript_split is a string that cannot be decoded, the
\* extraction falls back to the raw transcript text and the request is
\* answered 200.
C25_UndecodableTurnsDegrade ==
    (/\ ea.pc = "done"
     /\ sent.pc = "done"
     /\ ea.earningsTranscript # PENDING
     /\ TruthyVal(ea.earningsTranscript)
     /\ IsStr(ea.earningsTranscript.transcript_split)) =>
        /\ sent.text = transcriptTail(ea.earningsTranscript)
        /\ res.status = 200

----------------------------------------------------------------------------
(* The selection of extractKeyStatements (checked under SpecExtract).      *)

\* the turns of an executive speaker that hold text, in their order
ExecutiveTexts(transcript) ==
    LET chosen == SelectSeq(TurnsOf(transcript),
                            LAMBDA it : /\ it # NULL
                                        /\ IsStr(it.role)
                                        /\ \E r \in 1..Len(keyRoles) :
                                              Includes(it.role.str, keyRoles[r])
                                        /\ IsStr(it.text)
                                        /\ it.text.str # <<>>)
    IN  [k \in 1..Len(chosen) |-> chosen[k].text.str]

\* the last n elements of a sequence, all of them if there are no more
LastOf(seq, n) == IF Len(seq) > n THEN SubSeq(seq, Len(seq) - n + 1, Len(seq)) ELSE seq

RawText(transcript) == IF HasRawText(transcript) THEN transcript.transcript.str ELSE <<>>

\* C24: extractKeyStatements returns the texts of the last 3 turns (all, if
\* there are no more than 3) of executive speakers with non-empty text, in
\* their order and joined by single spaces; only when that is empty does it
\* return the final 1000 characters of the raw transcript text, the whole
\* text if shorter, so never more than 1000 characters.
C24_LastThreeExecutiveTurns ==
    (ExDone /\ TruthyVal(callArgs)) =>
        /\ ~callResult.threw
        /\ callResult.value =
             IF ExecutiveTexts(callArgs) # <<>>
             THEN Join(LastOf(ExecutiveTexts(callArgs), 3), <<" ">>)
             ELSE LastOf(RawText(callArgs), 1000)
        /\ ExecutiveTexts(callArgs) = <<>> => Len(callResult.value) <= 1000

----------------------------------------------------------------------------
(* Properties of splitIntoSentences (checked under SpecSplit).             *)

SplitDone == callResult # NULL

\* the positions of '.', '!' or '?' that whitespace follows
Boundaries(text) ==
    {k \in 1..(Len(text) - 1) : text[k] \in Punct /\ text[k + 1] \in WS}

\* the j-th boundary of the text; 0 before the first, the end of the text
\* after the last
BoundaryAt(text, j) ==
    IF j = 0 THEN 0
    ELSE IF j > Cardinality(Boundaries(text)) THEN Len(text)
    ELSE CHOOSE b \in Boundaries(text) :
           Cardinality({c \in Boundaries(text) : c < b}) = j - 1

\* the text cut after every boundary, each fragment trimmed
FragmentsOf(text) ==
    [j \in 1..(Cardinality(Boundaries(text)) + 1) |->
        trim(SubSeq(text, BoundaryAt(text, j - 1) + 1, BoundaryAt(text, j)))]

\* C26: splitIntoSentences cuts the text after every '.', '!' or '?' that is
\* followed by whitespace and nowhere else, keeps the punctuation, trims the
\* fragments, keeps their order, and discards exactly the fragments shorter
\* than 20 characters.
C26_SplitAtBoundaries ==
    SplitDone =>
        callResult.value = SelectSeq(FragmentsOf(callArgs), LAMBDA f : Len(f) >= 20)

----------------------------------------------------------------------------
(* The writes of the caches (checked under SpecApi).                       *)

\* the request is answered 200 with what was fetched for it
FreshAnswer(a) == a.res.status = 200 /\ a.res.body # UNDEF /\ ~a.res.body.cached

\* the cache changes in no step but one that answers a request with fresh
\* data, which is then stored under the request's key
CacheFrame ==
    /\ (fn = "stocks" \/ AnsweredNow = {}) => cache' = cache
    /\ \A a \in AnsweredNow :
         fn # "stocks" =>
           IF FreshAnswer(a)
           THEN Entry(cache', KeyOf(a.req)) = [timestamp |-> now, data |-> a.res.body.data]
           ELSE /\ a.res.status \in {200, 400, 404, 405, 500}
                /\ cache' = cache

\* C27: in every caching handler a request writes the cache if and only if
\* it is answered 200 with cached:false; the entry is written under the
\* request's key in the step that answers, and holds the payload returned;
\* a request answered 400, 404, 405 or 500, or from the cache, leaves every
\* entry as it was.
C27_WritesOnlyOnFresh200 ==
    [][CacheFrame]_vars

\* a request was answered with fresh data, which is stored, and a later one
\* was refused with 405
C27_RefusedAfterWrite ==
    \E i, j \in 1..Len(hs) :
      /\ i < j
      /\ hs[i].pc = "done" /\ hs[i].res.status = 200 /\ ~hs[i].res.body.cached
      /\ hs[j].pc = "done" /\ hs[j].res.status = 405
      /\ Entry(cache, KeyOf(hs[i].req)) # UNDEF
      /\ Entry(cache, KeyOf(hs[i].req)).data = hs[i].res.body.data

----------------------------------------------------------------------------
(* The order of the verdicts (checked under SpecRec).                      *)

\* SELL < HOLD < BUY
RankOf(recommendation) ==
    CASE recommendation = "SELL" -> 0
      [] recommendation = "HOLD" -> 1
      [] recommendation = "BUY"  -> 2

FactorNames == {"sentiment", "priceTrend", "economic"}

\* the factor triples that differ from f in one factor, which is higher
RaisedIn(f, k) == {[f EXCEPT ![k] = v] : v \in {w \in {-1, 0, 1} : w > f[k]}}

Only(k, v) == [n \in FactorNames |-> IF n = k THEN v ELSE 0]

\* C28: raising one factor with the two others fixed lowers neither the
\* score nor the verdict (SELL < HOLD < BUY); the verdicts are not symmetric
\* under negation: sentiment -1 alone gives SELL, sentiment +1 alone gives
\* BUY with Moderate confidence only.
C28_MonotoneInFactors ==
    RecDone =>
      /\ \A k \in FactorNames : \A g \in RaisedIn(recResult.factors, k) :
           /\ fge(finalScoreOf(g), recResult.score)
           /\ RankOf(verdictOf(finalScoreOf(g)).recommendation)
                >= RankOf(recResult.recommendation)
      /\ recResult.factors = Only("sentiment", -1) => recResult.recommendation = "SELL"
      /\ recResult.factors = Only("sentiment", 1) =>
           /\ recResult.recommendation = "BUY"
           /\ recResult.confidence = "Moderate"

\* the sentiment factor alone is -1 and the verdict is SELL
C28_SentimentAloneSells ==
    RecDone /\ recResult.factors = Only("sentiment", -1) /\ recResult.recommendation = "SELL"

----------------------------------------------------------------------------
(* The sentiment factor of the sampler's aggregates (checked under         *)
(* SpecSent).                                                              *)

\* the factor generateRecommendation gives the aggregate the sampler returned
FactorOfSample == recSentiment(sent.ret).factor

\* C29: for every aggregate the sampler returns, the sentiment factor is +1
\* exactly when overall.sentiment is POSITIVE, -1 exactly when it is NEGATIVE
\* or the mean is below 0.3, and 0 otherwise; a POSITIVE aggregate never
\* gives 0 or -1, a NEUTRAL one never +1.
C29_FactorOfAggregate ==
    SentReturned =>
      LET label == sent.ret.overall.sentiment
          mean  == sent.ret.overall.score
      IN  /\ FactorOfSample \in {-1, 0, 1}
          /\ (FactorOfSample = 1) <=> (label = "POSITIVE")
          /\ (FactorOfSample = -1) <=> (label = "NEGATIVE" \/ flt(mean, Dec(30)))
          /\ label = "POSITIVE" => fgt(mean, Dec(50))
          /\ label = "NEUTRAL" => FactorOfSample # 1

\* a NEUTRAL aggregate with a mean below 0.3 has the factor -1
C29_NeutralScoredDown ==
    /\ SentReturned
    /\ sent.ret.overall.sentiment = "NEUTRAL"
    /\ flt(sent.ret.overall.score, Dec(30))
    /\ FactorOfSample = -1

----------------------------------------------------------------------------
(* The earnings-analysis handler with every provider down (checked under   *)
(* SpecApi).                                                               *)

Refused(result) == result = [success |-> FALSE, statusCode |-> 503]

\* the request went upstream, every provider and both own endpoints
\* answered with another status than 200, and the handler has responded
EveryProviderDown ==
    /\ fn = EarningsAnalysis
    /\ AnsweredAfterFanout
    /\ ea.earningsTranscript = NULL
    /\ Refused(ea.stockPriceResult)
    /\ Refused(ea.historicalDataResult)
    /\ Refused(ea.economicDataResult)
    /\ ea.historyResponse = [ok |-> FALSE]
    /\ ea.economicData = NULL

\* a response payload without any signal
NoSignal(data) ==
    /\ data.stockData = NULL
    /\ data.earningsData = [hasTranscript |-> FALSE]
    /\ data.sentimentAnalysis = NULL
    /\ data.historicalTrend = NULL
    /\ data.recommendation.recommendation = "HOLD"
    /\ data.recommendation.score = DZero

\* the payload without a signal is answered and stored
StoredWithoutSignal ==
    EveryProviderDown =>
      /\ res.status = 200
      /\ ~res.body.cached
      /\ NoSignal(res.body.data)
      /\ mapGet(cache, cacheKeyOf(ea.ticker)) # UNDEF
      /\ mapGet(cache, cacheKeyOf(ea.ticker)).data = res.body.data
      /\ mapGet(cache, cacheKeyOf(ea.ticker)).timestamp <= now

\* a request that finds such an entry less than 24 hours old is answered
\* with it and asks no provider
ServedWithoutSignal ==
    (/\ fn = EarningsAnalysis
     /\ Arriving # NULL
     /\ ReachesCache(Arriving)
     /\ Entry(cache, KeyOf(Arriving)) # UNDEF
     /\ NoSignal(Entry(cache, KeyOf(Arriving)).data)
     /\ now - Entry(cache, KeyOf(Arriving)).timestamp < 24 * 60 * 60 * 1000) =>
        /\ res'.status = 200
        /\ res'.body.cached
        /\ res'.body.data = Entry(cache, KeyOf(Arriving)).data
        /\ ea'.pc = "done"
        /\ ~ArrivalFetches
        /\ cache' = cache

\* C30: the earnings-analysis handler caches a fresh result however many
\* signals are absent: when every upstream source answered with a non-200
\* status, the payload without stock data, transcript, sentiment and trend,
\* with recommendation HOLD and score 0, is stored, and every request for
\* the ticker in the 24 hours that follow is answered with that payload,
\* cached:true, without an upstream call.
C30_EmptyResultCached == []StoredWithoutSignal /\ [][ServedWithoutSignal]_vars

\* a request is answered from the cache with the payload without a signal,
\* one millisecond before the entry expires
C30_ServedAtLastInstant ==
    /\ fn = EarningsAnalysis
    /\ res # NULL
    /\ res.status = 200
    /\ res.body.cached
    /\ NoSignal(res.body.data)
    /\ now - mapGet(cache, cacheKeyOf(req.query.ticker.str)).timestamp = 24 * 60 * 60 * 1000 - 1
====
